---- MODULE Spec2Model ----
(***************************************************************************)
(* Model of the library-call sandbox: the kernel enforcement engine        *)
(* (kernel-module/libcallsandbox.c), the policy loader (sandboxctl) and    *)
(* the LLVM extraction pass (llvm-pass/src/LibCallPass.cpp).               *)
(***************************************************************************)
EXTENDS Integers, Sequences, FiniteSets, TLC

(***************************************************************************)
(* Bounds of the model.                                                    *)
(***************************************************************************)
MaxPid == 2
MaxId == 2
MaxObs == 4
MaxBlocks == 2
MaxSites == 2

Pids == 1..MaxPid

\* ids a process may pass to dummy(): the small ids and one id no policy uses
UnknownId == 99
ObsIds == (0..MaxId) \cup {UnknownId}

\* sanity cap on num_edges, (1u<<20)
EdgeCap == 1048576
\* bits per bitmap word (unsigned long on x86-64)
BITS_PER_LONG == 64

\* SIZE_MAX, the value of an entryNode that is not set. TLC's integers have
\* 32 bits: the model writes the largest of them; all that matters is that
\* it is no node index.
SIZE_MAX == 2147483647
\* the default of -libcall-mod
HashMod == 200
\* the label of an epsilon edge
EpsLabel == "eps"

BITS_TO_LONGS(n) == (n + BITS_PER_LONG - 1) \div BITS_PER_LONG

VARIABLES
  proc_tbl,   \* pid -> chain of proc_policy entries of that pid, head first
  loaded,     \* the module is loaded (kprobe armed, device registered)
  oops,       \* a handler dereferenced NULL while holding tbl_lock
  last,       \* the last operation: its arguments, return value, the signal
              \* it sent, and whether it touched a bitmap or indeg slot
              \* outside [0, num_nodes)
  obs         \* ids observed per pid since its table entry was last touched
              \* by a load (bounded log, kept by the scenario runs)

VARIABLES
  prog,       \* the module given to the pass: [funcs, M, idMode]
  pc          \* where the instrumented process is: [at, f, b, k]

vars == <<proc_tbl, loaded, oops, last, obs, prog, pc>>

(***************************************************************************)
(* struct edge, struct policy_blob                                         *)
(***************************************************************************)
Edge(s, d, m, eps) == [src |-> s, dst |-> d, match_id |-> m, is_epsilon |-> eps]

policy_blob(n, mode, es) ==
  [num_nodes |-> n, num_edges |-> Len(es), id_mode |-> mode, edges |-> es]

\* A bitmap pointer that is NULL (kcalloc failed).
NullBitmap == {-1}

(***************************************************************************)
(* frontier helpers                                                        *)
(***************************************************************************)
frontier_init(n, fails) ==
  [num_nodes |-> n, bitmap |-> IF fails THEN NullBitmap ELSE {}]

frontier_set(bm, idx) == bm \cup {idx}

frontier_test(bm, idx) == idx \in bm

\* frontier_empty reads the BITS_TO_LONGS(num_nodes) words of the bitmap.
frontier_empty(fr) ==
  {b \in fr.bitmap : b < BITS_PER_LONG * BITS_TO_LONGS(fr.num_nodes)} = {}

\* One pass of the for loop of epsilon_closure over edges[i..]:
\* st = [bm, changed].
RECURSIVE closure_pass(_, _, _)
closure_pass(edges, i, st) ==
  IF i > Len(edges) THEN st
  ELSE LET e == edges[i] IN
       IF e.is_epsilon = 0 THEN closure_pass(edges, i + 1, st)
       ELSE IF frontier_test(st.bm, e.src) /\ ~frontier_test(st.bm, e.dst)
            THEN closure_pass(edges, i + 1,
                   [bm |-> frontier_set(st.bm, e.dst), changed |-> TRUE])
            ELSE closure_pass(edges, i + 1, st)

\* closure_loop that makes one pass over the edges and stops.
closure_loop_one_pass(edges, bm, passes) ==
  [bm |-> closure_pass(edges, 1, [bm |-> bm, changed |-> FALSE]).bm,
   passes |-> passes + 1]

\* closure_loop that makes one more pass after the pass that changes nothing.
RECURSIVE closure_loop_extra_pass(_, _, _)
closure_loop_extra_pass(edges, bm, passes) ==
  LET st == closure_pass(edges, 1, [bm |-> bm, changed |-> FALSE]) IN
  IF st.changed THEN closure_loop_extra_pass(edges, st.bm, passes + 1)
  ELSE [bm |-> st.bm, passes |-> passes + 2]

\* The do-while loop: [bm, passes] after the loop ends.
RECURSIVE closure_loop(_, _, _)
closure_loop(edges, bm, passes) ==
  LET st == closure_pass(edges, 1, [bm |-> bm, changed |-> FALSE]) IN
  IF st.changed THEN closure_loop(edges, st.bm, passes + 1)
  ELSE [bm |-> st.bm, passes |-> passes + 1]

epsilon_closure(edges, bm) == closure_loop(edges, bm, 0).bm

\* The for loop that stops at the first edge it fires.
RECURSIVE advance_scan_first(_, _, _, _, _)
advance_scan_first(edges, i, bm, observed, next) ==
  IF i > Len(edges) THEN next
  ELSE LET e == edges[i] IN
       IF e.is_epsilon # 0
       THEN advance_scan_first(edges, i + 1, bm, observed, next)
       ELSE IF e.match_id # observed
            THEN advance_scan_first(edges, i + 1, bm, observed, next)
       ELSE IF frontier_test(bm, e.src)
            THEN next \cup {e.dst}
            ELSE advance_scan_first(edges, i + 1, bm, observed, next)

\* The for loop of advance_frontier over edges[i..]: the scratch bitmap next.
RECURSIVE advance_scan(_, _, _, _, _)
advance_scan(edges, i, bm, observed, next) ==
  IF i > Len(edges) THEN next
  ELSE LET e == edges[i] IN
       IF e.is_epsilon # 0 THEN advance_scan(edges, i + 1, bm, observed, next)
       ELSE IF e.match_id # observed
            THEN advance_scan(edges, i + 1, bm, observed, next)
       ELSE IF frontier_test(bm, e.src)
            THEN advance_scan(edges, i + 1, bm, observed, next \cup {e.dst})
            ELSE advance_scan(edges, i + 1, bm, observed, next)

\* advance_frontier: the new bitmap; nomem = the scratch kcalloc failed.
advance_frontier(pp, observed, nomem) ==
  IF nomem THEN pp.fr.bitmap
  ELSE epsilon_closure(pp.edges,
                       advance_scan(pp.edges, 1, pp.fr.bitmap, observed, {}))


(***************************************************************************)
(* Slots touched outside [0, num_nodes)                                    *)
(***************************************************************************)
\* epsilon_closure tests src of every epsilon edge, and dst when src is set;
\* bm is the bitmap the final pass runs on.
closure_oor(edges, bm, n) ==
  \E i \in 1..Len(edges) :
    /\ edges[i].is_epsilon # 0
    /\ \/ edges[i].src >= n
       \/ frontier_test(bm, edges[i].src) /\ edges[i].dst >= n

\* advance_frontier tests src of every matching consuming edge and sets dst
\* in the scratch bitmap when src is set.
advance_oor(edges, bm, observed, n) ==
  \E i \in 1..Len(edges) :
    /\ edges[i].is_epsilon = 0
    /\ edges[i].match_id = observed
    /\ \/ edges[i].src >= n
       \/ frontier_test(bm, edges[i].src) /\ edges[i].dst >= n

\* indeg[edges[i].dst]++ writes past the num_nodes-slot array.
indeg_overrun(edges, n) ==
  \E i \in 1..Len(edges) : edges[i].is_epsilon = 0 /\ edges[i].dst >= n

(***************************************************************************)
(* Policy table helpers                                                    *)
(***************************************************************************)
Min(S) == CHOOSE x \in S : \A y \in S : x <= y

\* Index in the pid's chain of the first entry whose pid matches; 0 is NULL.
lookup_ppid(tbl, pid) ==
  LET hits == {i \in 1..Len(tbl[pid]) : tbl[pid][i].pid = pid} IN
  IF hits = {} THEN 0 ELSE Min(hits)

hash_del(tbl, pid, i) ==
  [tbl EXCEPT ![pid] = SubSeq(@, 1, i - 1) \o SubSeq(@, i + 1, Len(@))]

hash_add(tbl, pp) == [tbl EXCEPT ![pp.pid] = <<pp>> \o @]

(***************************************************************************)
(* IOCTL_LOAD_POLICY                                                       *)
(***************************************************************************)
\* Which of the calls of one ioctl fail: the kcalloc of the edge copy, the
\* copy_from_user of the edges, the kzalloc of the proc_policy, the kcalloc of
\* the frontier bitmap, the kcalloc of indeg.
FailModes ==
  {{}, {"edges"}, {"fault"}, {"pp"}, {"bitmap"}, {"indeg"}, {"bitmap", "indeg"}}

\* indeg[k] after the counting loop, for a slot k of the array.
indeg(edges, k) ==
  Cardinality({i \in 1..Len(edges) :
                 edges[i].is_epsilon = 0 /\ edges[i].dst = k})

\* The bits set by the start-set block before epsilon_closure.
start_set(edges, n, indegFails) ==
  IF indegFails THEN {0}
  ELSE {k \in 0..(n - 1) : indeg(edges, k) = 0}

\* The block between mutex_lock and mutex_unlock, from the kzalloc on, for a
\* table tbl from which the old entry is already unlinked:
\* [tbl, ret, oops, oor, overrun]. crash is the outcome of a write past the
\* indeg array: the corrupted heap brings the kernel down, or goes unnoticed.
load_locked(tbl, pid, hdr, fail, crash) ==
  LET edges   == hdr.edges
      n       == hdr.num_nodes
      fr      == frontier_init(n, "bitmap" \in fail)
      isnull  == fr.bitmap = NullBitmap
      start   == start_set(edges, n, "indeg" \in fail)
      overrun == "indeg" \notin fail /\ indeg_overrun(edges, n)
      \* a NULL bitmap is written by frontier_set or read by epsilon_closure
      nullref == /\ isnull
                 /\ \/ start # {}
                    \/ \E i \in 1..Len(edges) : edges[i].is_epsilon # 0
      bm      == IF isnull THEN NullBitmap ELSE epsilon_closure(edges, start)
      pp      == [pid |-> hdr.pid, num_nodes |-> n, num_edges |-> hdr.num_edges,
                  id_mode |-> hdr.id_mode, edges |-> edges,
                  fr |-> [fr EXCEPT !.bitmap = bm]]
  IN  IF "pp" \in fail
      THEN [tbl |-> tbl, ret |-> "-ENOMEM", oops |-> FALSE, oor |-> FALSE,
            overrun |-> FALSE]
      ELSE IF nullref \/ (overrun /\ crash)
      THEN [tbl |-> tbl, ret |-> "oops", oops |-> TRUE, oor |-> overrun,
            overrun |-> overrun]
      ELSE [tbl |-> hash_add(tbl, pp), ret |-> "0", oops |-> FALSE,
            oor |-> overrun \/ (~isnull /\ closure_oor(edges, bm, n)),
            overrun |-> overrun]

\* The ioctl gets as far as mutex_lock.
reaches_lock(hdr, fail) ==
  /\ ~(hdr.num_nodes = 0 \/ hdr.num_edges > EdgeCap)
  /\ ~(hdr.num_edges > 0 /\ fail \cap {"edges", "fault"} # {})

\* The ioctl without the hash_del of the entry it finds.
load_policy_keeps_old(tbl, hdr, fail, crash) ==
  LET pid == hdr.pid
      old == lookup_ppid(tbl, pid)
      t1  == tbl
  IN  IF hdr.num_nodes = 0 \/ hdr.num_edges > EdgeCap
      THEN [tbl |-> tbl, ret |-> "-EINVAL", oops |-> FALSE, oor |-> FALSE,
            overrun |-> FALSE]
      ELSE IF hdr.num_edges > 0 /\ "edges" \in fail
      THEN [tbl |-> tbl, ret |-> "-ENOMEM", oops |-> FALSE, oor |-> FALSE,
            overrun |-> FALSE]
      ELSE IF hdr.num_edges > 0 /\ "fault" \in fail
      THEN [tbl |-> tbl, ret |-> "-EFAULT", oops |-> FALSE, oor |-> FALSE,
            overrun |-> FALSE]
      ELSE load_locked(t1, pid, hdr, fail, crash)

\* The ioctl without the bound on num_edges.
load_policy_no_cap(tbl, hdr, fail, crash) ==
  LET pid == hdr.pid
      old == lookup_ppid(tbl, pid)
      t1  == IF old # 0 THEN hash_del(tbl, pid, old) ELSE tbl
  IN  IF hdr.num_nodes = 0
      THEN [tbl |-> tbl, ret |-> "-EINVAL", oops |-> FALSE, oor |-> FALSE,
            overrun |-> FALSE]
      ELSE IF hdr.num_edges > 0 /\ "edges" \in fail
      THEN [tbl |-> tbl, ret |-> "-ENOMEM", oops |-> FALSE, oor |-> FALSE,
            overrun |-> FALSE]
      ELSE IF hdr.num_edges > 0 /\ "fault" \in fail
      THEN [tbl |-> tbl, ret |-> "-EFAULT", oops |-> FALSE, oor |-> FALSE,
            overrun |-> FALSE]
      ELSE load_locked(t1, pid, hdr, fail, crash)

\* The ioctl without the test of num_nodes.
load_policy_accepts_empty(tbl, hdr, fail, crash) ==
  LET pid == hdr.pid
      old == lookup_ppid(tbl, pid)
      t1  == IF old # 0 THEN hash_del(tbl, pid, old) ELSE tbl
  IN  IF hdr.num_edges > EdgeCap
      THEN [tbl |-> tbl, ret |-> "-EINVAL", oops |-> FALSE, oor |-> FALSE,
            overrun |-> FALSE]
      ELSE IF hdr.num_edges > 0 /\ "edges" \in fail
      THEN [tbl |-> tbl, ret |-> "-ENOMEM", oops |-> FALSE, oor |-> FALSE,
            overrun |-> FALSE]
      ELSE IF hdr.num_edges > 0 /\ "fault" \in fail
      THEN [tbl |-> tbl, ret |-> "-EFAULT", oops |-> FALSE, oor |-> FALSE,
            overrun |-> FALSE]
      ELSE load_locked(t1, pid, hdr, fail, crash)

\* The whole ioctl: hdr is the blob as copy_from_user reads it.
load_policy(tbl, hdr, fail, crash) ==
  LET pid == hdr.pid
      old == lookup_ppid(tbl, pid)
      t1  == IF old # 0 THEN hash_del(tbl, pid, old) ELSE tbl
  IN  IF hdr.num_nodes = 0 \/ hdr.num_edges > EdgeCap
      THEN [tbl |-> tbl, ret |-> "-EINVAL", oops |-> FALSE, oor |-> FALSE,
            overrun |-> FALSE]
      ELSE IF hdr.num_edges > 0 /\ "edges" \in fail
      THEN [tbl |-> tbl, ret |-> "-ENOMEM", oops |-> FALSE, oor |-> FALSE,
            overrun |-> FALSE]
      ELSE IF hdr.num_edges > 0 /\ "fault" \in fail
      THEN [tbl |-> tbl, ret |-> "-EFAULT", oops |-> FALSE, oor |-> FALSE,
            overrun |-> FALSE]
      ELSE load_locked(t1, pid, hdr, fail, crash)


(***************************************************************************)
(* The dummy syscall probe                                                 *)
(***************************************************************************)
\* The probe that kills a task it finds no policy for.
handler_pre_kills_unknown(tbl, pid, id, nomem) ==
  LET i  == lookup_ppid(tbl, pid)
      pp == tbl[pid][i]
      bm == advance_frontier(pp, id, nomem)
      np == [pp EXCEPT !.fr.bitmap = bm]
  IN  IF i = 0
      THEN [tbl |-> tbl, sig |-> TRUE, oops |-> FALSE, oor |-> FALSE]
      ELSE IF pp.fr.bitmap = NullBitmap
      THEN [tbl |-> tbl, sig |-> FALSE, oops |-> TRUE, oor |-> FALSE]
      ELSE [tbl |-> [tbl EXCEPT ![pid][i] = np],
            sig |-> frontier_empty(np.fr),
            oops |-> FALSE,
            oor |-> /\ ~nomem
                    /\ \/ advance_oor(pp.edges, pp.fr.bitmap, id, pp.num_nodes)
                       \/ closure_oor(pp.edges, bm, pp.num_nodes)]

\* handler_pre that signals only when the step empties the frontier.
handler_pre_kills_once(tbl, pid, id, nomem) ==
  LET i  == lookup_ppid(tbl, pid)
      pp == tbl[pid][i]
      bm == advance_frontier(pp, id, nomem)
      np == [pp EXCEPT !.fr.bitmap = bm]
  IN  IF i = 0
      THEN [tbl |-> tbl, sig |-> FALSE, oops |-> FALSE, oor |-> FALSE]
      ELSE IF pp.fr.bitmap = NullBitmap
      THEN [tbl |-> tbl, sig |-> FALSE, oops |-> TRUE, oor |-> FALSE]
      ELSE [tbl |-> [tbl EXCEPT ![pid][i] = np],
            sig |-> frontier_empty(np.fr) /\ ~frontier_empty(pp.fr),
            oops |-> FALSE,
            oor |-> /\ ~nomem
                    /\ \/ advance_oor(pp.edges, pp.fr.bitmap, id, pp.num_nodes)
                       \/ closure_oor(pp.edges, bm, pp.num_nodes)]

\* The probe that unlinks the entry of the task it kills.
handler_pre_drops_violator(tbl, pid, id, nomem) ==
  LET i  == lookup_ppid(tbl, pid)
      pp == tbl[pid][i]
      bm == advance_frontier(pp, id, nomem)
      np == [pp EXCEPT !.fr.bitmap = bm]
  IN  IF i = 0
      THEN [tbl |-> tbl, sig |-> FALSE, oops |-> FALSE, oor |-> FALSE]
      ELSE IF pp.fr.bitmap = NullBitmap
      THEN [tbl |-> tbl, sig |-> FALSE, oops |-> TRUE, oor |-> FALSE]
      ELSE [tbl |-> IF frontier_empty(np.fr) THEN hash_del(tbl, pid, i)
                    ELSE [tbl EXCEPT ![pid][i] = np],
            sig |-> frontier_empty(np.fr),
            oops |-> FALSE,
            oor |-> /\ ~nomem
                    /\ \/ advance_oor(pp.edges, pp.fr.bitmap, id, pp.num_nodes)
                       \/ closure_oor(pp.edges, bm, pp.num_nodes)]

\* handler_pre for task pid and first argument id: [tbl, sig, oops, oor].
handler_pre(tbl, pid, id, nomem) ==
  LET i  == lookup_ppid(tbl, pid)
      pp == tbl[pid][i]
      bm == advance_frontier(pp, id, nomem)
      np == [pp EXCEPT !.fr.bitmap = bm]
  IN  IF i = 0
      THEN [tbl |-> tbl, sig |-> FALSE, oops |-> FALSE, oor |-> FALSE]
      ELSE IF pp.fr.bitmap = NullBitmap
      THEN [tbl |-> tbl, sig |-> FALSE, oops |-> TRUE, oor |-> FALSE]
      ELSE [tbl |-> [tbl EXCEPT ![pid][i] = np],
            sig |-> frontier_empty(np.fr),
            oops |-> FALSE,
            oor |-> /\ ~nomem
                    /\ \/ advance_oor(pp.edges, pp.fr.bitmap, id, pp.num_nodes)
                       \/ closure_oor(pp.edges, bm, pp.num_nodes)]

(***************************************************************************)
(* The extraction pass: one function of the module                         *)
(*                                                                         *)
(* A function is [nb, calls, succ, addr]: nb basic blocks in program order *)
(* (block 1 is the entry), calls[b] library-call sites in block b,         *)
(* succ[b] the successor blocks, and addr the blocks in ascending order of  *)
(* their BasicBlock pointers, the order in which bbMap is iterated.        *)
(***************************************************************************)
RECURSIVE SitesAlong(_, _, _)
\* The sites <<b, k>> of the blocks order[j..], block by block.
SitesAlong(fn, order, j) ==
  IF j > Len(order) THEN <<>>
  ELSE [k \in 1..fn.calls[order[j]] |-> <<order[j], k>>]
       \o SitesAlong(fn, order, j + 1)

PosIn(seq, x) == CHOOSE i \in 1..Len(seq) : seq[i] = x

\* Nodes are allocated walking bbMap.
NodeOrder(fn) == SitesAlong(fn, fn.addr, 1)

callNodeIndex(fn, site) == PosIn(NodeOrder(fn), site) - 1

\* Ids are assigned walking the function in program order.
ProgramOrder(fn) == SitesAlong(fn, [b \in 1..fn.nb |-> b], 1)

\* dummyCounterPerFunc[&F] when the site is visited.
SiteCounter(fn, site) == PosIn(ProgramOrder(fn), site) - 1

uniqueID(fn, site) == SiteCounter(fn, site) + 1
dummyID(fn, site, M) == SiteCounter(fn, site) % M
resetCount(fn, site, M) == SiteCounter(fn, site) \div M

\* The elements of a set of numbers in ascending order.
RECURSIVE Ascending(_)
Ascending(S) ==
  IF S = {} THEN <<>>
  ELSE LET m == CHOOSE x \in S : \A y \in S : x <= y
       IN  <<m>> \o Ascending(S \ {m})

\* entryNode of block b as the edge loop reads it while it is at position j
\* of bbMap: set only once the loop has reached b.
entryNode(fn, b, j) ==
  IF PosIn(fn.addr, b) <= j THEN callNodeIndex(fn, <<b, 1>>) ELSE SIZE_MAX

\* The addEdge calls made for the block at position j of bbMap.
BlockEdges(fn, j) ==
  LET b     == fn.addr[j]
      n     == fn.calls[b]
      intra == [i \in 1..(IF n = 0 THEN 0 ELSE n - 1) |->
                  [src |-> callNodeIndex(fn, <<b, i>>),
                   target |-> callNodeIndex(fn, <<b, i + 1>>),
                   label |-> "f"]]
      succs == Ascending({t \in fn.succ[b] : fn.calls[t] > 0})
      inter == [i \in 1..(IF n = 0 THEN 0 ELSE Len(succs)) |->
                  [src |-> callNodeIndex(fn, <<b, n>>),
                   target |-> entryNode(fn, succs[i], j),
                   label |-> EpsLabel]]
  IN  intra \o inter

RECURSIVE GraphEdges(_, _)
\* G.edges in insertion order, from position j of bbMap on.
GraphEdges(fn, j) ==
  IF j > fn.nb THEN <<>> ELSE BlockEdges(fn, j) \o GraphEdges(fn, j + 1)

RECURSIVE ExportEdges_match_dst(_, _, _, _)
\* The export loop taking the ids of a consuming edge from its target node.
ExportEdges_match_dst(fn, M, ge, src) ==
  IF src >= Len(NodeOrder(fn)) THEN <<>>
  ELSE LET adj  == SelectSeq(ge, LAMBDA e : e.src = src)
       IN  [i \in 1..Len(adj) |->
              [src |-> src, dst |-> adj[i].target, label |-> adj[i].label,
               matchDummy |-> IF adj[i].label = EpsLabel THEN -1
                              ELSE dummyID(fn, NodeOrder(fn)[adj[i].target + 1],
                                           M),
               matchUnique |-> IF adj[i].label = EpsLabel THEN -1
                               ELSE uniqueID(fn,
                                             NodeOrder(fn)[adj[i].target + 1])]]
           \o ExportEdges_match_dst(fn, M, ge, src + 1)

RECURSIVE ExportEdges(_, _, _, _)
\* The export loop: for each src, the edges of adj[src].
ExportEdges(fn, M, ge, src) ==
  IF src >= Len(NodeOrder(fn)) THEN <<>>
  ELSE LET site == NodeOrder(fn)[src + 1]
           adj  == SelectSeq(ge, LAMBDA e : e.src = src)
       IN  [i \in 1..Len(adj) |->
              [src |-> src, dst |-> adj[i].target, label |-> adj[i].label,
               matchDummy |-> IF adj[i].label = EpsLabel THEN -1
                              ELSE dummyID(fn, site, M),
               matchUnique |-> IF adj[i].label = EpsLabel THEN -1
                               ELSE uniqueID(fn, site)]]
           \o ExportEdges(fn, M, ge, src + 1)

\* The FuncPolicy the pass records for the function.
FuncPolicy(fn, M, idMode) ==
  LET nodes == NodeOrder(fn)
      inOrd == ProgramOrder(fn)
  IN  [mod |-> M,
       idMode |-> idMode,
       callsInOrder |->
         [i \in 1..Len(inOrd) |->
            [name |-> "f",
             uniqueID |-> IF idMode = "unique" THEN uniqueID(fn, inOrd[i])
                          ELSE -1,
             dummyID |-> dummyID(fn, inOrd[i], M),
             resetCount |-> resetCount(fn, inOrd[i], M)]],
       nodeLabels |-> [i \in 1..Len(nodes) |-> "f"],
       nodeDummyIDs |-> [i \in 1..Len(nodes) |-> dummyID(fn, nodes[i], M)],
       nodeUniqueIDs |-> [i \in 1..Len(nodes) |-> uniqueID(fn, nodes[i])],
       edges |-> ExportEdges(fn, M, GraphEdges(fn, 1), 0)]

\* The argument of the dummy() call inserted before the site.
MarkerArg(fn, site, M, idMode) ==
  IF idMode = "unique" THEN uniqueID(fn, site) ELSE dummyID(fn, site, M)

(***************************************************************************)
(* The artifact text and the loader (sandboxctl)                           *)
(*                                                                         *)
(* The text PolicyJSON::serialize writes is modelled by its keys in the    *)
(* order they are written, each with the array that follows it; the loader *)
(* finds its way by searching the text for keys.                           *)
(***************************************************************************)
RECURSIVE serialize(_, _)
\* The keyed arrays of functions[i..] in the order serialize emits them.
serialize(functions, i) ==
  IF i > Len(functions) THEN <<>>
  ELSE LET f == functions[i] IN
       << [key |-> "callsInOrder", val |-> f.callsInOrder],
          [key |-> "nodeLabels", val |-> f.nodeLabels],
          [key |-> "nodeDummyIDs", val |-> f.nodeDummyIDs],
          [key |-> "nodeUniqueIDs", val |-> f.nodeUniqueIDs],
          [key |-> "edges", val |-> f.edges] >>
       \o serialize(functions, i + 1)

\* strstr(p, key): the first position after `from` that holds the key, or 0.
strstr(json, from, key) ==
  LET hits == {j \in (from + 1)..Len(json) : json[j].key = key} IN
  IF hits = {} THEN 0 ELSE Min(hits)

RECURSIVE nth_edges(_, _, _)
\* The loop over i <= func_index: the position of the "edges" key it stops
\* at, or 0 when the text has too few.
nth_edges(json, from, left) ==
  LET q == strstr(json, from, "edges") IN
  IF q = 0 THEN 0
  ELSE IF left = 0 THEN q
  ELSE nth_edges(json, q, left - 1)

\* extract_graph_edges: [ok, num_nodes, edges].
extract_graph_edges(json, func_index, id_mode) ==
  LET p  == nth_edges(json, 0, func_index)
      nl == IF p = 0 THEN 0 ELSE strstr(json, p, "nodeLabels")
      es == json[p].val
  IN  IF p = 0 \/ nl = 0
      THEN [ok |-> FALSE, num_nodes |-> 0, edges |-> <<>>]
      ELSE [ok |-> TRUE,
            num_nodes |-> Len(json[nl].val),
            edges |-> [i \in 1..Len(es) |->
                         Edge(es[i].src, es[i].dst,
                              IF id_mode = 0 THEN es[i].matchDummy
                              ELSE es[i].matchUnique,
                              IF es[i].label = EpsLabel THEN 1 ELSE 0)]]

(***************************************************************************)
(* The install blob in bytes                                               *)
(***************************************************************************)
\* The four little-endian bytes of a 32-bit value; SIZE_MAX and -1 are all
\* ones.
le32(v) ==
  IF v = SIZE_MAX \/ v = -1 THEN <<255, 255, 255, 255>>
  ELSE <<v % 256, (v \div 256) % 256, (v \div 65536) % 256,
         (v \div 16777216) % 256>>

\* An unsigned 32-bit value from four bytes; a value that needs bit 31 is
\* written SIZE_MAX.
u32(b) ==
  IF b[4] >= 128 THEN SIZE_MAX
  ELSE b[1] + 256 * b[2] + 65536 * b[3] + 16777216 * b[4]

\* A signed 32-bit value from four bytes.
s32(b) ==
  b[1] + 256 * b[2] + 65536 * b[3]
  + 16777216 * (IF b[4] >= 128 THEN b[4] - 256 ELSE b[4])

\* struct edge of the loader, packed: 13 bytes.
pack_edge(e) ==
  le32(e.src) \o le32(e.dst) \o le32(e.match_id) \o <<e.is_epsilon>>

RECURSIVE pack_edges(_, _)
\* The edges part of the blob the loader writes.
pack_edges(edges, i) ==
  IF i > Len(edges) THEN <<>>
  ELSE pack_edge(edges[i]) \o pack_edges(edges, i + 1)

\* sizeof(struct edge) in the kernel: the u8 is followed by 3 padding bytes.
KernelEdgeSize == 16

\* The edges copy_from_user reads: num_edges records of the kernel's struct
\* edge from the bytes after the header. The bytes past the end of the
\* loader's buffer are whatever follows it in the caller's memory: here
\* every such byte is `beyond`.
unpack_edges(bytes, num_edges, beyond) ==
  LET at(k) == IF k <= Len(bytes) THEN bytes[k] ELSE beyond
      rec(j) == [k \in 1..KernelEdgeSize |-> at((j - 1) * KernelEdgeSize + k)]
  IN  [j \in 1..num_edges |->
         Edge(u32(SubSeq(rec(j), 1, 4)), u32(SubSeq(rec(j), 5, 8)),
              s32(SubSeq(rec(j), 9, 12)), rec(j)[13])]

(***************************************************************************)
(* Blobs handed to the ioctl                                               *)
(***************************************************************************)
Linear == policy_blob(3, 0, <<Edge(0, 1, 0, 0), Edge(1, 2, 1, 0)>>)
BranchEps == policy_blob(3, 0, <<Edge(0, 1, -1, 1), Edge(0, 2, -1, 1)>>)
Single == policy_blob(1, 0, <<>>)
Cycle == policy_blob(2, 1, <<Edge(0, 1, 1, 0), Edge(1, 0, 2, 0)>>)
EpsLoop == policy_blob(2, 1, <<Edge(0, 1, 1, 0), Edge(1, 0, -1, 1)>>)
ZeroNodes == policy_blob(0, 0, <<>>)
OverCap == [num_nodes |-> 1, num_edges |-> EdgeCap + 1, id_mode |-> 0,
              edges |-> <<>>]
BadDst == policy_blob(2, 0, <<Edge(0, 2, 0, 0)>>)
BadSrc == policy_blob(2, 0, <<Edge(2, 1, -1, 1)>>)

Catalogue ==
  <<Linear, BranchEps, Single, Cycle, EpsLoop, ZeroNodes, OverCap, BadDst,
    BadSrc>>

Blobs == 1..Len(Catalogue)

Header(pid, c) ==
  [pid |-> pid, num_nodes |-> Catalogue[c].num_nodes,
   num_edges |-> Catalogue[c].num_edges, id_mode |-> Catalogue[c].id_mode,
   edges |-> Catalogue[c].edges]

(***************************************************************************)
(* Actions                                                                 *)
(***************************************************************************)
\* The record of an operation that takes no argument and sends no signal.
Quiet(op) ==
  [op |-> op, pid |-> 0, arg |-> 0, fail |-> {}, found |-> FALSE, ret |-> "0",
   sig |-> FALSE, oor |-> FALSE]

EmptyTbl == [p \in Pids |-> <<>>]

\* No module, no instrumented process: the engine is driven by hand.
NoProg == [funcs |-> <<>>, M |-> 1, idMode |-> "dummy", json |-> <<>>]
Idle == [at |-> "idle", f |-> 0, b |-> 0, k |-> 0]

Init ==
  /\ proc_tbl = EmptyTbl
  /\ loaded = TRUE
  /\ oops = FALSE
  /\ last = Quiet("init")
  /\ obs = [p \in Pids |-> <<>>]
  /\ prog = NoProg
  /\ pc = Idle

\* ioctl(fd, IOCTL_LOAD_POLICY, blob) with header and edges hdr; op and c
\* name the caller and the blob in the record of the operation.
LoadBlob(op, hdr, c, fail, crash) ==
  LET r == load_policy(proc_tbl, hdr, fail, crash)
      p == hdr.pid
  IN
  /\ loaded /\ ~oops
  /\ crash => r.overrun
  /\ proc_tbl' = r.tbl
  /\ oops' = r.oops
  /\ last' = [op |-> op, pid |-> p, arg |-> c, fail |-> fail,
              found |-> lookup_ppid(proc_tbl, p) # 0, ret |-> r.ret,
              sig |-> FALSE, oor |-> r.oor]
  /\ obs' = IF reaches_lock(hdr, fail)
            THEN [obs EXCEPT ![p] = <<>>] ELSE obs
  /\ UNCHANGED loaded

\* The ioctl with the catalogue's blob c for pid p.
LoadPolicy(p, c, fail, crash) ==
  LoadBlob("load", Header(p, c), c, fail, crash)

\* Task p calls dummy(id); rec: the observation is appended to the log.
Dummy(p, id, nomem, rec) ==
  LET r == handler_pre(proc_tbl, p, id, nomem) IN
  /\ loaded /\ ~oops
  /\ rec => Len(obs[p]) < MaxObs
  /\ proc_tbl' = r.tbl
  /\ oops' = r.oops
  /\ last' = [op |-> "dummy", pid |-> p, arg |-> id,
              fail |-> IF nomem THEN {"next"} ELSE {},
              found |-> lookup_ppid(proc_tbl, p) # 0, ret |-> "0",
              sig |-> r.sig, oor |-> r.oor]
  /\ obs' = IF rec THEN [obs EXCEPT ![p] = Append(@, <<id, nomem>>)] ELSE obs
  /\ UNCHANGED loaded

\* rmmod: sandbox_exit frees every entry.
sandbox_exit ==
  /\ loaded /\ ~oops
  /\ proc_tbl' = EmptyTbl
  /\ loaded' = FALSE
  /\ last' = Quiet("exit")
  /\ obs' = [p \in Pids |-> <<>>]
  /\ UNCHANGED <<oops, prog, pc>>

\* insmod: sandbox_init; the table is the zeroed static hashtable.
sandbox_init ==
  /\ ~loaded
  /\ loaded' = TRUE
  /\ last' = Quiet("init")
  /\ UNCHANGED <<proc_tbl, oops, obs, prog, pc>>

\* Process 1 is loaded with every blob under every failure; the other
\* processes are bystanders that run under the first blob of the catalogue.
BlobsOf(p) == IF p = 1 THEN Blobs ELSE {1}
FailsOf(p) == IF p = 1 THEN FailModes ELSE {{}}

Load == \E p \in Pids : \E c \in BlobsOf(p), fail \in FailsOf(p),
                           crash \in BOOLEAN :
          LoadPolicy(p, c, fail, crash) /\ UNCHANGED <<prog, pc>>

Observe == \E p \in Pids, id \in ObsIds, nomem \in BOOLEAN :
             Dummy(p, id, nomem, FALSE) /\ UNCHANGED <<prog, pc>>

Next == Load \/ Observe \/ sandbox_exit \/ sandbox_init

Spec == Init /\ [][Next]_vars


(***************************************************************************)
(* Scenario runs: one process, no allocation failure, every observation    *)
(* since the load logged in obs.                                           *)
(***************************************************************************)
LoadScen ==
  \E c \in Blobs : LoadPolicy(1, c, {}, FALSE) /\ UNCHANGED <<prog, pc>>

ObserveScen ==
  \E id \in ObsIds : Dummy(1, id, FALSE, TRUE) /\ UNCHANGED <<prog, pc>>

NextScen == LoadScen \/ ObserveScen

(***************************************************************************)
(* End-to-end runs: a function is extracted, its policy is installed for   *)
(* process 1, and the instrumented process walks the function's CFG.       *)
(***************************************************************************)
Perms(n) == {s \in [1..n -> 1..n] : \A i, j \in 1..n : s[i] = s[j] => i = j}

Functions ==
  UNION {[nb : {n}, calls : [1..n -> 0..MaxSites],
          succ : [1..n -> SUBSET (1..n)], addr : Perms(n)] : n \in 1..MaxBlocks}

Mods == {2, HashMod}

\* The policy of function fp of the artifact, as the blob the engine takes.
ArtifactBlob(fp, mode) ==
  [num_nodes |-> Len(fp.nodeLabels),
   num_edges |-> Len(fp.edges),
   id_mode |-> mode,
   edges |-> [i \in 1..Len(fp.edges) |->
                Edge(fp.edges[i].src, fp.edges[i].dst,
                     IF mode = 0 THEN fp.edges[i].matchDummy
                     ELSE fp.edges[i].matchUnique,
                     IF fp.edges[i].label = EpsLabel THEN 1 ELSE 0)]]

ModeTag(idMode) == IF idMode = "unique" THEN 1 ELSE 0

\* The pass run on a module: the functions, the options, and the artifact
\* text written at the end of the run.
Compile(funcs, M, idMode) ==
  [funcs |-> funcs, M |-> M, idMode |-> idMode,
   json |-> serialize([i \in 1..Len(funcs) |->
                         FuncPolicy(funcs[i], M, idMode)], 1)]

InitE2E ==
  /\ proc_tbl = EmptyTbl
  /\ loaded = TRUE
  /\ oops = FALSE
  /\ last = Quiet("init")
  /\ obs = [p \in Pids |-> <<>>]
  /\ prog \in {Compile(<<fn>>, M, idMode) :
                 fn \in Functions, M \in Mods, idMode \in {"dummy", "unique"}}
  /\ pc = [at |-> "start", f |-> 1, b |-> 0, k |-> 0]

\* The extracted policy of the function is installed for process 1.
InstallExtracted ==
  LET fp  == FuncPolicy(prog.funcs[pc.f], prog.M, prog.idMode)
      hdr == [pid |-> 1] @@ ArtifactBlob(fp, ModeTag(prog.idMode))
  IN  /\ pc.at = "start"
      /\ LoadBlob("load", hdr, 0, {}, FALSE)
      /\ pc' = [pc EXCEPT !.at = "run", !.b = 1, !.k = 1]
      /\ UNCHANGED prog

\* The process reaches the marker before its next library call.
Emit ==
  LET fn == prog.funcs[pc.f] IN
  /\ pc.at = "run"
  /\ pc.k <= fn.calls[pc.b]
  /\ Dummy(1, MarkerArg(fn, <<pc.b, pc.k>>, prog.M, prog.idMode), FALSE, FALSE)
  /\ pc' = IF last'.sig THEN [pc EXCEPT !.at = "killed"]
           ELSE [pc EXCEPT !.k = @ + 1]
  /\ UNCHANGED prog

\* The process leaves the block for one of its successors.
Branch ==
  LET fn == prog.funcs[pc.f] IN
  /\ pc.at = "run"
  /\ pc.k > fn.calls[pc.b]
  /\ \E t \in fn.succ[pc.b] : pc' = [pc EXCEPT !.b = t, !.k = 1]
  /\ UNCHANGED <<proc_tbl, loaded, oops, last, obs, prog>>

\* The process returns from a block that has no successor.
Return ==
  LET fn == prog.funcs[pc.f] IN
  /\ pc.at = "run"
  /\ pc.k > fn.calls[pc.b]
  /\ fn.succ[pc.b] = {}
  /\ pc' = [pc EXCEPT !.at = "done"]
  /\ UNCHANGED <<proc_tbl, loaded, oops, last, obs, prog>>

NextE2E == InstallExtracted \/ Emit \/ Branch \/ Return

SpecE2E == InitE2E /\ [][NextE2E]_vars

SpecScen == Init /\ [][NextScen]_vars

(***************************************************************************)
(* Loader runs: a module of several functions is compiled, sandboxctl is   *)
(* run on the artifact for process 1, and the process emits markers.       *)
(***************************************************************************)
MaxFuncs == 2

\* The functions of the modules the loader is run on: one basic block.
LoaderFunctions ==
  [nb : {1}, calls : [{1} -> 0..MaxSites], succ : [{1} -> SUBSET {1}],
   addr : Perms(1)]

Modules ==
  UNION {[1..n -> LoaderFunctions] : n \in 1..MaxFuncs}

\* What follows the loader's buffer in its memory, byte by byte.
Beyond == {0, 255}

InitLoad ==
  /\ proc_tbl = EmptyTbl
  /\ loaded = TRUE
  /\ oops = FALSE
  /\ last = Quiet("init")
  /\ obs = [p \in Pids |-> <<>>]
  /\ prog \in {Compile(fs, Min(Mods), idMode) :
                 fs \in Modules, idMode \in {"dummy", "unique"}}
  /\ pc = Idle

\* The header and the edges the engine reads from the blob sandboxctl
\* builds from graph g.
ctl_blob(p, g, id_mode, beyond) ==
  [pid |-> p, num_nodes |-> g.num_nodes, num_edges |-> Len(g.edges),
   id_mode |-> id_mode,
   edges |-> unpack_edges(pack_edges(g.edges, 1), Len(g.edges), beyond)]

\* sandboxctl -p p -j json -f func_index [--unique].
Sandboxctl(p, json, func_index, id_mode, fail, crash, beyond) ==
  LET g == extract_graph_edges(json, func_index, id_mode) IN
  IF ~g.ok
  THEN /\ fail = {} /\ ~crash /\ beyond = 0
       /\ last' = [op |-> "ctl", pid |-> p, arg |-> func_index, fail |-> {},
                   found |-> lookup_ppid(proc_tbl, p) # 0, ret |-> "exit1",
                   sig |-> FALSE, oor |-> FALSE]
       /\ UNCHANGED <<proc_tbl, loaded, oops, obs>>
  ELSE /\ g.edges = <<>> => beyond = 0
       /\ LoadBlob("ctl", ctl_blob(p, g, id_mode, beyond), func_index, fail,
                   crash)

RunLoader ==
  \E f \in 0..MaxFuncs, id_mode \in 0..1, beyond \in Beyond,
     fail \in FailModes, crash \in BOOLEAN :
    /\ Sandboxctl(1, prog.json, f, id_mode, fail, crash, beyond)
    /\ UNCHANGED <<prog, pc>>

ObserveLoad ==
  \E id \in ObsIds, nomem \in BOOLEAN :
    Dummy(1, id, nomem, FALSE) /\ UNCHANGED <<prog, pc>>

NextLoad == RunLoader \/ ObserveLoad

SpecLoad == InitLoad /\ [][NextLoad]_vars


(***************************************************************************)
(* Vocabulary of the properties                                            *)
(***************************************************************************)
\* The entry lookup_ppid finds for p.
PolicyOf(p) == proc_tbl[p][lookup_ppid(proc_tbl, p)]

Installed(p) == lookup_ppid(proc_tbl, p) # 0

\* p runs under the graph of blob b.
Running(p, b) ==
  /\ Installed(p)
  /\ PolicyOf(p).num_nodes = b.num_nodes
  /\ PolicyOf(p).edges = b.edges

\* The ids logged for p since its load.
Ids(p) == [i \in 1..Len(obs[p]) |-> obs[p][i][1]]

\* The last operation was dummy() by p and it sent SIGKILL.
Killed(p) == last.op = "dummy" /\ last.pid = p /\ last.sig

IndexOf(b) == CHOOSE c \in Blobs : Catalogue[c] = b

\* Some edge of blob b names a node outside [0, num_nodes).
HasBadEdge(b) ==
  \E i \in 1..Len(b.edges) :
    b.edges[i].src >= b.num_nodes \/ b.edges[i].dst >= b.num_nodes

\* The blob passes the sanity check of the ioctl.
Sane(b) == b.num_nodes # 0 /\ b.num_edges <= EdgeCap

\* Some allocation the ioctl performs for blob b fails under fail.
AllocFailed(b, fail) ==
  /\ Sane(b)
  /\ \/ b.num_edges > 0 /\ "edges" \in fail
     \/ fail \cap {"pp", "bitmap", "indeg"} # {}

\* The bitmap after observing ids[i..] from bitmap bm on the graph of pp,
\* every scratch allocation succeeding.
RECURSIVE RunFrom(_, _, _)
RunFrom(pp, ids, i) ==
  IF i > Len(ids) THEN pp.fr.bitmap
  ELSE RunFrom([pp EXCEPT !.fr.bitmap = advance_frontier(pp, ids[i], FALSE)],
               ids, i + 1)

\* The entry a load of blob c for p leaves in an empty table.
Fresh(p, c) == load_policy(EmptyTbl, Header(p, c), {}, FALSE).tbl[p]

(***************************************************************************)
(* C2. Linear accept: under the three-node policy with edges 0->1 (match 0) *)
(* and 1->2 (match 1), observing 0, 1, 2 leaves the frontier non-empty     *)
(* after each observation and sends no signal; observing 2 once more       *)
(* empties the frontier and kills.                                         *)
(***************************************************************************)
C2_LinearAccept ==
  \A p \in Pids :
    Running(p, Linear) =>
      /\ Ids(p) \in {<<0>>, <<0, 1>>, <<0, 1, 2>>} =>
           ~frontier_empty(PolicyOf(p).fr) /\ ~Killed(p)
      /\ Ids(p) = <<0, 1, 2, 2>> =>
           frontier_empty(PolicyOf(p).fr) /\ Killed(p)

(***************************************************************************)
(* C3. Branch with epsilon: under the policy with only the epsilon edges   *)
(* 0->1 and 0->2 the initial frontier is {0,1,2}; observing 0 yields       *)
(* {1,2} without a violation; observing 1 next yields the empty frontier   *)
(* and a violation.                                                        *)
(***************************************************************************)
C3_BranchEps ==
  \A p \in Pids :
    Running(p, BranchEps) =>
      /\ Ids(p) = <<>> => PolicyOf(p).fr.bitmap = {0, 1, 2}
      /\ Ids(p) = <<0>> => PolicyOf(p).fr.bitmap = {1, 2} /\ ~Killed(p)
      /\ Ids(p) = <<0, 1>> => PolicyOf(p).fr.bitmap = {} /\ Killed(p)

(***************************************************************************)
(* C4. For a pid with an installed policy, dummy(id) sends SIGKILL if and  *)
(* only if step(frontier, id) followed by epsilon-closure is empty; an id  *)
(* matching no consuming edge out of an active node is a violation.        *)
(***************************************************************************)
C4_KillIffStepEmpty ==
  [][(last'.op = "dummy" /\ Installed(last'.pid)) =>
       (last'.sig <=>
          advance_frontier(PolicyOf(last'.pid), last'.arg, FALSE) = {})]_vars

(***************************************************************************)
(* C5. dummy(id) by a pid that has no installed policy is a no-op: the     *)
(* table with every policy and frontier is unchanged and no signal is      *)
(* sent.                                                                   *)
(***************************************************************************)
C5_NoPolicyNoOp ==
  [][(last'.op = "dummy" /\ ~Installed(last'.pid)) =>
       (proc_tbl' = proc_tbl /\ ~last'.sig /\ ~oops')]_vars

C5_Witness ==
  /\ last.op = "dummy" /\ ~last.found /\ ~last.sig
  /\ ~Installed(last.pid)
  /\ \E q \in Pids : Installed(q) /\ PolicyOf(q).fr.bitmap # {}

C7_SanityRefused ==
  [][(last'.op = "load" /\ ~Sane(Catalogue[last'.arg])) =>
       (last'.ret = "-EINVAL" /\ proc_tbl' = proc_tbl /\ ~oops')]_vars

C7_Witness ==
  /\ last.op = "load" /\ last.ret = "-EINVAL" /\ last.found
  /\ Catalogue[last.arg].num_nodes = 0
  /\ Installed(last.pid)

(***************************************************************************)
(* C8. A load of a blob with an edge whose src or dst is >= num_nodes is   *)
(* refused: it returns an error and installs nothing, and no frontier or   *)
(* in-degree slot outside [0, num_nodes) is ever read or written.          *)
(***************************************************************************)
C8_BadEdgeRefused ==
  [][/\ ~last'.oor
     /\ (last'.op = "load" /\ HasBadEdge(Catalogue[last'.arg])) =>
          (last'.ret # "0" /\ proc_tbl' = proc_tbl)]_vars

(***************************************************************************)
(* C9. If an allocation performed by the load fails (edge copy,            *)
(* proc_policy, frontier bitmap, indeg), the load returns an error and the *)
(* policy previously installed for the pid stays in the table unchanged.   *)
(***************************************************************************)
C9_AllocFailureKeepsOld ==
  [][(last'.op = "load" /\ AllocFailed(Catalogue[last'.arg], last'.fail)) =>
       (last'.ret = "-ENOMEM" /\ proc_tbl' = proc_tbl)]_vars


(***************************************************************************)
(* C1. End-to-end soundness: when every basic block of the function holds  *)
(* a library call, its extracted policy is installed and the process       *)
(* follows a path of the CFG from the entry block, emitting each site's    *)
(* id before the call, no observation empties the frontier: the process is *)
(* never killed.                                                           *)
(***************************************************************************)
EveryBlockCalls(fn) == \A b \in 1..fn.nb : fn.calls[b] >= 1

C1_LegitimateRunSurvives ==
  (pc.at # "idle" /\ EveryBlockCalls(prog.funcs[pc.f])) =>
    /\ pc.at # "killed"
    /\ ~Killed(1)
    /\ Installed(1) => ~frontier_empty(PolicyOf(1).fr)

(***************************************************************************)
(* C10. Zero-site policy.                                                  *)
(***************************************************************************)
\* The function the loader is asked for has no library-call site.
ZeroSite(f) ==
  /\ f + 1 \in 1..Len(prog.funcs)
  /\ prog.funcs[f + 1].calls[1] = 0

\* The graph the loader reads for function index f in mode id_mode.
LoaderGraph(f, id_mode) == extract_graph_edges(prog.json, f, id_mode)

\* C10 as stated: after the policy of a function with no library-call site
\* has been loaded for a process, the first marker the process emits, whatever
\* its value, kills it.
C10_ZeroSiteKillsFirstMarker ==
  [][(/\ last.op = "ctl"
      /\ ZeroSite(last.arg)
      /\ last'.op = "dummy"
      /\ last'.pid = last.pid) => last'.sig]_vars

\* C10 amended: a policy without nodes is never installed. When the blob
\* the loader builds has num_nodes = 0 and reaches the engine, Install answers
\* -EINVAL and leaves the table as it was; a process that had no policy then
\* still has none, and the next marker it emits, whatever its value, does not
\* kill it.
C10_ZeroNodeBlobRefused ==
  /\ [][(/\ last'.op = "ctl"
         /\ last'.ret # "exit1"
         /\ \E m \in 0..1 : LoaderGraph(last'.arg, m).num_nodes = 0)
          => (last'.ret = "-EINVAL" /\ proc_tbl' = proc_tbl /\ ~oops')]_vars
  /\ [][(/\ last.op = "ctl"
         /\ last.ret # "exit1"
         /\ \E m \in 0..1 : LoaderGraph(last.arg, m).num_nodes = 0
         /\ ~last.found
         /\ last'.op = "dummy"
         /\ last'.pid = last.pid)
          => (~last'.sig /\ lookup_ppid(proc_tbl', last'.pid) = 0)]_vars

\* The loader has handed the engine the blob without nodes of a zero-site
\* function for a process that had no policy, and the engine has refused it.
C10_Witness ==
  /\ last.op = "ctl"
  /\ last.pid = 1
  /\ last.ret = "-EINVAL"
  /\ last.fail = {}
  /\ ~last.found
  /\ ZeroSite(last.arg)
  /\ LoaderGraph(last.arg, 0).ok
  /\ LoaderGraph(last.arg, 0).num_nodes = 0

(***************************************************************************)
(* C11. Dummy collision: two sites of one function whose counters differ   *)
(* by a multiple of M carry the same dummy id and distinct unique ids.     *)
(* When both their nodes are active and each has a consuming out-edge, in  *)
(* dummy mode observing the shared dummy id fires the out-edges of both    *)
(* nodes; in unique mode observing one site's unique id fires that site's  *)
(* out-edge alone.                                                         *)
(***************************************************************************)
\* The sites of the function.
SitesOf(fn) == {<<b, k>> : b \in 1..fn.nb, k \in 1..MaxSites} \cap
               {s \in (1..fn.nb) \X (1..MaxSites) : s[2] <= fn.calls[s[1]]}

\* The destinations of the consuming edges of policy pp that leave node n.
OutDst(pp, n) ==
  {pp.edges[i].dst : i \in {j \in 1..Len(pp.edges) :
                              pp.edges[j].is_epsilon = 0 /\ pp.edges[j].src = n}}

\* Sites s and t collide: same dummy id, both nodes are active in bitmap F
\* and have a consuming out-edge.
Colliding(fn, M, pp, F, s, t) ==
  /\ s # t
  /\ dummyID(fn, s, M) = dummyID(fn, t, M)
  /\ uniqueID(fn, s) # uniqueID(fn, t)
  /\ callNodeIndex(fn, s) \in F
  /\ callNodeIndex(fn, t) \in F
  /\ OutDst(pp, callNodeIndex(fn, s)) # {}
  /\ OutDst(pp, callNodeIndex(fn, t)) # {}

TaskExit(p) ==
  /\ loaded /\ ~oops
  /\ last' = [op |-> "task_exit", pid |-> p, arg |-> 0, fail |-> {},
              found |-> lookup_ppid(proc_tbl, p) # 0, ret |-> "0",
              sig |-> FALSE, oor |-> FALSE]
  /\ UNCHANGED <<proc_tbl, loaded, oops, obs, prog, pc>>

ExitTask == \E p \in Pids : TaskExit(p)

NextLife == LoadScen \/ Observe \/ ExitTask \/ sandbox_exit \/ sandbox_init

SpecLife == Init /\ [][NextLife]_vars

(***************************************************************************)
(* C12. Lifecycle: a policy is destroyed when its process exits and at     *)
(* engine teardown; after the process with pid p has exited the table      *)
(* holds no policy for p, so a later process that reuses pid p is not      *)
(* checked against the old policy.                                         *)
(***************************************************************************)
C12_Lifecycle ==
  /\ [][last'.op = "exit" => proc_tbl' = EmptyTbl]_vars
  /\ [][last'.op = "task_exit" => lookup_ppid(proc_tbl', last'.pid) = 0]_vars
  /\ [][(last.op = "task_exit" /\ last'.op = "dummy" /\ last'.pid = last.pid)
          => (~last'.found /\ ~last'.sig)]_vars

(***************************************************************************)
(* C13. Loader function selection: for an artifact with n functions and an *)
(* index f in [0, n), the blob the loader builds has num_nodes equal to    *)
(* the number of entries of nodeLabels of function f, and its edges are    *)
(* the edges of function f: same count, same src and dst, is_epsilon set   *)
(* exactly for the epsilon label, match_id taken from matchDummy or        *)
(* matchUnique according to the id-mode selector.                          *)
(***************************************************************************)
C13_LoaderSelectsFunction ==
  [][(last'.op = "ctl" /\ last'.arg < Len(prog.funcs)) =>
       \A m \in 0..1 :
         LET g  == LoaderGraph(last'.arg, m)
             fp == FuncPolicy(prog.funcs[last'.arg + 1], prog.M, prog.idMode)
         IN  /\ g.ok
             /\ g.num_nodes = Len(fp.nodeLabels)
             /\ g.edges = ArtifactBlob(fp, m).edges]_vars

(***************************************************************************)
(* C14: install blob agreement.  For every blob sandboxctl writes with k   *)
(* edges, the engine's load decodes exactly k edges and the i-th decoded   *)
(* edge (src, dst, match_id, is_epsilon) equals the i-th edge the loader   *)
(* encoded: both sides use the same record layout and stride.              *)
(***************************************************************************)
C14_BlobAgreement ==
  [][(last'.op = "ctl" /\ last'.ret = "0") =>
       LET pp == PolicyOf(1)'
           g  == LoaderGraph(last'.arg, pp.id_mode)
       IN  /\ Len(pp.edges) = Len(g.edges)
           /\ \A i \in 1..Len(g.edges) : pp.edges[i] = g.edges[i]]_vars

(***************************************************************************)
(* The pass on the IR, instruction by instruction                          *)
(*                                                                         *)
(* A function of the module is [blocks, addr]: its basic blocks in program *)
(* order, each a sequence of instructions, and the order of the blocks in  *)
(* bbMap; a declaration has no block.  An instruction is a call (with its  *)
(* callee, or none for an indirect call) or something else.  A name is the *)
(* sequence of its parts, "llvm." being one part.                          *)
(***************************************************************************)
MaxInstr == 3

NullCallee == [null |-> TRUE, name |-> <<>>, decl |-> FALSE]

Callee(name, decl) == [null |-> FALSE, name |-> name, decl |-> decl]

\* A call instruction; `ins` tells the calls the pass created.
Call(callee, arg, ins) ==
  [isCall |-> TRUE, callee |-> callee, arg |-> arg, ins |-> ins]

Other == [isCall |-> FALSE, callee |-> NullCallee, arg |-> 0, ins |-> FALSE]

DummyDecl == Callee(<<"dummy">>, TRUE)

startswith(Name, prefix) == Len(Name) >= 1 /\ Name[1] = prefix

isCandidateLibCall(CB) ==
  IF CB.callee.null THEN FALSE
  ELSE IF ~CB.callee.decl THEN FALSE
  ELSE IF startswith(CB.callee.name, "llvm.") THEN FALSE
  ELSE TRUE

\* dyn_cast<CallBase>(&I) succeeds and the call is a candidate.
IsSite(I) == I.isCall /\ isCandidateLibCall(I)

\* The instructions the functions under the pass are made of.
Instrs ==
  {Call(Callee(<<"puts">>, TRUE), 0, FALSE),
   Call(Callee(<<"llvm.", "memcpy">>, TRUE), 0, FALSE),
   Call(Callee(<<"helper">>, FALSE), 0, FALSE),
   Call(NullCallee, 0, FALSE),
   Other}

\* The calls lst.calls collects for a block.
BBCallList(block) == SelectSeq(block, IsSite)

\* The function as [nb, calls, succ, addr].
Shape(fn) ==
  [nb |-> Len(fn.blocks),
   calls |-> [b \in 1..Len(fn.blocks) |-> Len(BBCallList(fn.blocks[b]))],
   succ |-> [b \in 1..Len(fn.blocks) |-> {}],
   addr |-> fn.addr]

\* operator[] of a std::map<Function*, unsigned>: a missing key reads 0.
MapAt(map, key) == IF key \in DOMAIN map THEN map[key] ELSE 0

\* assign_ids whose dummy id is the counter itself.
assign_ids_no_modulo(uc, dc, M) ==
  [uniqueID |-> uc + 1, reset |-> dc \div M, dummyID |-> dc,
   uc |-> uc + 1, dc |-> dc + 1]

\* assign_ids whose unique id is the counter before the increment.
assign_ids_post_increment(uc, dc, M) ==
  [uniqueID |-> uc, reset |-> dc \div M, dummyID |-> dc % M,
   uc |-> uc + 1, dc |-> dc + 1]

\* Arg that is the dummy id in both modes.
Arg_always_dummy(ids, idMode) ==
  IF idMode = "unique" THEN ids.dummyID ELSE ids.dummyID

\* The ids the pass gives to the site it visits, and the counters after it.
assign_ids(uc, dc, M) ==
  [uniqueID |-> uc + 1, reset |-> dc \div M, dummyID |-> dc % M,
   uc |-> uc + 1, dc |-> dc + 1]

\* The argument of the marker call.
Arg(ids, idMode) ==
  IF idMode = "unique" THEN ids.uniqueID ELSE ids.dummyID

\* The blocks a sequence of instructions can be cut into: one block, or two
\* blocks in either order of their addresses.
Layouts(code) ==
  IF Len(code) = 0 THEN {[blocks |-> <<>>, addr |-> <<>>]}
  ELSE {[blocks |-> <<code>>, addr |-> <<1>>]}
       \cup {[blocks |-> <<SubSeq(code, 1, c), SubSeq(code, c + 1, Len(code))>>,
              addr |-> a] : c \in 1..(Len(code) - 1), a \in Perms(2)}

IRFunctions ==
  UNION {Layouts(code) : code \in UNION {[1..n -> Instrs] : n \in 0..MaxInstr}}

\* A second function of the module: it calls dummy itself.
Companion ==
  [blocks |-> <<<<Call(DummyDecl, 7, FALSE),
                  Call(Callee(<<"puts">>, TRUE), 0, FALSE), Other>>>>,
   addr |-> <<1>>]

IRModules ==
  UNION {{<<fn>>, <<fn, Companion>>, <<Companion, fn>>} : fn \in IRFunctions}

\* G.nodes after the node loop: one node per collected call, in bbMap order,
\* with the ids Graph::Node starts with.
InitNodes(fn) ==
  LET order == NodeOrder(Shape(fn)) IN
  [i \in 1..Len(order) |->
     [pretty |-> BBCallList(fn.blocks[order[i][1]])[order[i][2]].callee.name,
      dummyID |-> -1, uniqueID |-> -1]]

\* The number, within its block, of the collected call at position k.
SiteNo(block, k) ==
  Len(SelectSeq(SubSeq(block, 1, k), LAMBDA J : IsSite(J) /\ ~J.ins))

\* B.CreateCall with the builder placed at position k.
InsertBefore(block, k, I) ==
  SubSeq(block, 1, k - 1) \o <<I>> \o SubSeq(block, k, Len(block))

InitPass ==
  /\ proc_tbl = EmptyTbl
  /\ loaded = FALSE
  /\ oops = FALSE
  /\ last = Quiet("init")
  /\ obs = [p \in Pids |-> <<>>]
  /\ prog \in {[funcs |-> m, src |-> m, M |-> M, idMode |-> idMode,
                uniqueIdCounterPerFunc |-> <<>>, dummyCounterPerFunc |-> <<>>,
                nodes |-> <<>>, callsInOrder |-> <<>>, policyOut |-> <<>>] :
                 m \in IRModules, M \in Mods, idMode \in {"dummy", "unique"}}
  /\ pc = [at |-> "function", f |-> 1, b |-> 0, k |-> 0]

\* for (Function &F : M): a declaration is passed over.
SkipDeclaration ==
  /\ pc.at = "function"
  /\ pc.f <= Len(prog.funcs)
  /\ prog.funcs[pc.f].blocks = <<>>
  /\ pc' = [pc EXCEPT !.f = @ + 1]
  /\ UNCHANGED <<proc_tbl, loaded, oops, last, obs, prog>>

\* The calls of the function are collected and their nodes allocated.
EnterFunction ==
  /\ pc.at = "function"
  /\ pc.f <= Len(prog.funcs)
  /\ prog.funcs[pc.f].blocks # <<>>
  /\ prog' = [prog EXCEPT !.nodes = InitNodes(prog.funcs[pc.f]),
                          !.callsInOrder = <<>>]
  /\ pc' = [pc EXCEPT !.at = "instrument", !.b = 1, !.k = 1]
  /\ UNCHANGED <<proc_tbl, loaded, oops, last, obs>>

\* The instrumentation loop is at a library call: ids, node, marker, site.
VisitSite ==
  LET fn    == prog.funcs[pc.f]
      block == fn.blocks[pc.b]
      I     == block[pc.k]
      ids   == assign_ids(MapAt(prog.uniqueIdCounterPerFunc, pc.f),
                          MapAt(prog.dummyCounterPerFunc, pc.f), prog.M)
      idx   == callNodeIndex(Shape(prog.src[pc.f]),
                             <<pc.b, SiteNo(block, pc.k)>>)
      site  == [name |-> I.callee.name,
                uniqueID |-> IF prog.idMode = "unique" THEN ids.uniqueID
                             ELSE -1,
                dummyID |-> ids.dummyID, resetCount |-> ids.reset]
  IN  /\ pc.at = "instrument"
      /\ pc.k <= Len(block)
      /\ IsSite(I)
      /\ prog' = [prog EXCEPT
           !.uniqueIdCounterPerFunc = (pc.f :> ids.uc) @@ @,
           !.dummyCounterPerFunc = (pc.f :> ids.dc) @@ @,
           !.nodes[idx + 1].dummyID = ids.dummyID,
           !.nodes[idx + 1].uniqueID = ids.uniqueID,
           !.funcs[pc.f].blocks[pc.b] =
              InsertBefore(block, pc.k,
                           Call(DummyDecl, Arg(ids, prog.idMode), TRUE)),
           !.callsInOrder = Append(@, site)]
      /\ pc' = [pc EXCEPT !.k = @ + 2]
      /\ UNCHANGED <<proc_tbl, loaded, oops, last, obs>>

\* The instrumentation loop is at any other instruction.
SkipInstr ==
  LET block == prog.funcs[pc.f].blocks[pc.b] IN
  /\ pc.at = "instrument"
  /\ pc.k <= Len(block)
  /\ ~IsSite(block[pc.k])
  /\ pc' = [pc EXCEPT !.k = @ + 1]
  /\ UNCHANGED <<proc_tbl, loaded, oops, last, obs, prog>>

\* The end of a block that is not the last one.
NextBlock ==
  /\ pc.at = "instrument"
  /\ pc.k > Len(prog.funcs[pc.f].blocks[pc.b])
  /\ pc.b < Len(prog.funcs[pc.f].blocks)
  /\ pc' = [pc EXCEPT !.b = @ + 1, !.k = 1]
  /\ UNCHANGED <<proc_tbl, loaded, oops, last, obs, prog>>

\* The end of the last block: the graph is exported into the artifact.
Export ==
  /\ pc.at = "instrument"
  /\ pc.k > Len(prog.funcs[pc.f].blocks[pc.b])
  /\ pc.b = Len(prog.funcs[pc.f].blocks)
  /\ prog' = [prog EXCEPT !.policyOut =
       Append(@, [functionName |-> pc.f, mod |-> prog.M,
                  idMode |-> prog.idMode,
                  callsInOrder |-> prog.callsInOrder,
                  nodeLabels |-> [i \in 1..Len(prog.nodes) |->
                                    prog.nodes[i].pretty],
                  nodeDummyIDs |-> [i \in 1..Len(prog.nodes) |->
                                      prog.nodes[i].dummyID],
                  nodeUniqueIDs |-> [i \in 1..Len(prog.nodes) |->
                                       prog.nodes[i].uniqueID]])]
  /\ pc' = [pc EXCEPT !.at = "function", !.f = @ + 1, !.b = 0, !.k = 0]
  /\ UNCHANGED <<proc_tbl, loaded, oops, last, obs>>

\* Every function has been visited: the artifact is written.
WritePolicy ==
  /\ pc.at = "function"
  /\ pc.f > Len(prog.funcs)
  /\ pc' = [pc EXCEPT !.at = "written"]
  /\ UNCHANGED <<proc_tbl, loaded, oops, last, obs, prog>>

NextPass ==
  SkipDeclaration \/ EnterFunction \/ VisitSite \/ SkipInstr \/ NextBlock
  \/ Export \/ WritePolicy

SpecPass == InitPass /\ [][NextPass]_vars

\* The instructions of the block that the pass did not create.
Strip(block) == SelectSeq(block, LAMBDA J : ~J.ins)

\* The entry of the artifact for function f of the module.
PolicyFor(f) ==
  prog.policyOut[CHOOSE i \in 1..Len(prog.policyOut) :
                   prog.policyOut[i].functionName = f]

\* The identifier the artifact records for node idx, in the mode of the run.
RecordedId(pol, idx) ==
  IF pol.idMode = "unique" THEN pol.nodeUniqueIDs[idx + 1]
  ELSE pol.nodeDummyIDs[idx + 1]

\* The identifier callsInOrder records for the i-th site (i = 0, 1, ...).
SiteId(pol, i) ==
  IF pol.idMode = "unique" THEN pol.callsInOrder[i + 1].uniqueID
  ELSE pol.callsInOrder[i + 1].dummyID

(***************************************************************************)
(* C15: instrumentation.  After the pass, every library-call site of a     *)
(* function (a call whose callee is a declaration with a name that does   *)
(* not start with "llvm.") is immediately preceded by exactly one call of  *)
(* the marker, whose argument is the site's dummy id in dummy mode and its *)
(* unique id in unique mode and equals the id the artifact records for the *)
(* site's node; every marker the pass inserted stands immediately before   *)
(* such a site, and nothing else in the function has changed.              *)
(***************************************************************************)
C15_Instrumentation ==
  pc.at = "written" =>
    \A f \in 1..Len(prog.funcs) : \A b \in 1..Len(prog.funcs[f].blocks) :
      LET block == prog.funcs[f].blocks[b]
          sh    == Shape(prog.src[f])
      IN  /\ Strip(block) = prog.src[f].blocks[b]
          /\ \A k \in 1..Len(block) :
               /\ (IsSite(block[k]) /\ ~block[k].ins) =>
                    LET site == <<b, SiteNo(block, k)>> IN
                    /\ k > 1
                    /\ block[k - 1].ins
                    /\ block[k - 1].callee = DummyDecl
                    /\ block[k - 1].arg =
                         SiteId(PolicyFor(f), SiteCounter(sh, site))
                    /\ block[k - 1].arg =
                         RecordedId(PolicyFor(f), callNodeIndex(sh, site))
               /\ block[k].ins =>
                    /\ k < Len(block)
                    /\ IsSite(block[k + 1])
                    /\ ~block[k + 1].ins

\* A run in unique mode over a function of two blocks whose bbMap order is
\* the reverse of the program order, with a site in each block and an
\* intrinsic call between them.
C15_Witness ==
  /\ pc.at = "written"
  /\ prog.idMode = "unique"
  /\ Len(prog.funcs) = 1
  /\ prog.src[1].addr = <<2, 1>>
  /\ prog.funcs[1].blocks =
       <<<<Call(DummyDecl, 1, TRUE), Call(Callee(<<"puts">>, TRUE), 0, FALSE),
           Call(Callee(<<"llvm.", "memcpy">>, TRUE), 0, FALSE)>>,
         <<Call(DummyDecl, 2, TRUE), Call(Callee(<<"puts">>, TRUE), 0, FALSE)>>>>
  /\ PolicyFor(1).nodeUniqueIDs = <<2, 1>>

\* The functions of the module that have a body.
Defined == {f \in 1..Len(prog.src) : prog.src[f].blocks # <<>>}

\* The number of library-call sites of function f before the pass.
NumSites(f) == Len(ProgramOrder(Shape(prog.src[f])))

(***************************************************************************)
(* C16: dummy-id law.  For each function and modulus M >= 1 the i-th       *)
(* library-call site in program order (i = 0, 1, 2, ...) gets dummy id     *)
(* i mod M and reset count i div M, the counter restarting at 0 for every  *)
(* function; every dummy id lies in [0, M).                                *)
(***************************************************************************)
C16_DummyIdLaw ==
  pc.at = "written" =>
    \A f \in Defined :
      LET pol == PolicyFor(f)
          sh  == Shape(prog.src[f])
      IN  /\ Len(pol.callsInOrder) = NumSites(f)
          /\ \A i \in 0..(NumSites(f) - 1) :
               /\ pol.callsInOrder[i + 1].dummyID = i % prog.M
               /\ pol.callsInOrder[i + 1].resetCount = i \div prog.M
               /\ pol.callsInOrder[i + 1].dummyID \in 0..(prog.M - 1)
               /\ pol.nodeDummyIDs[callNodeIndex(sh, ProgramOrder(sh)[i + 1]) + 1]
                    = i % prog.M

\* A run with M = 2 over a function of three sites, where the counter wraps,
\* followed by a second function whose sites start again at 0.
C16_Witness ==
  /\ pc.at = "written"
  /\ prog.M = 2
  /\ Len(prog.src) = 2
  /\ NumSites(1) = 3
  /\ [i \in 1..3 |-> PolicyFor(1).callsInOrder[i].dummyID] = <<0, 1, 0>>
  /\ [i \in 1..3 |-> PolicyFor(1).callsInOrder[i].resetCount] = <<0, 0, 1>>
  /\ [i \in 1..2 |-> PolicyFor(2).callsInOrder[i].dummyID] = <<0, 1>>

(***************************************************************************)
(* C17: unique-id law.  For each function with n library-call sites the    *)
(* unique ids given to its nodes are exactly 1..n, each used once, given   *)
(* in program order, whatever the sites of the other functions.            *)
(***************************************************************************)
C17_UniqueIdLaw ==
  pc.at = "written" =>
    \A f \in Defined :
      LET pol == PolicyFor(f)
          sh  == Shape(prog.src[f])
          n   == NumSites(f)
      IN  /\ Len(pol.nodeUniqueIDs) = n
          /\ {pol.nodeUniqueIDs[j] : j \in 1..n} = 1..n
          /\ \A i \in 0..(n - 1) :
               pol.nodeUniqueIDs[callNodeIndex(sh, ProgramOrder(sh)[i + 1]) + 1]
                 = i + 1

\* A run over a function that has already given two ids, followed by a
\* function of two blocks whose nodes are allocated against program order.
C17_Witness ==
  /\ pc.at = "written"
  /\ Len(prog.src) = 2
  /\ prog.src[1] = Companion
  /\ prog.src[2].addr = <<2, 1>>
  /\ PolicyFor(1).nodeUniqueIDs = <<1, 2>>
  /\ PolicyFor(2).nodeUniqueIDs = <<2, 3, 1>>

\* No epsilon edge leads from a node of bm to a node outside it.
EpsClosed(edges, bm) ==
  \A i \in 1..Len(edges) :
    (edges[i].is_epsilon # 0 /\ edges[i].src \in bm) => edges[i].dst \in bm

(***************************************************************************)
(* C18: frontier invariant.  For every installed policy, after a load and  *)
(* after every observation, the frontier is a bitmap of num_nodes bits     *)
(* (it exists, its width is the policy's num_nodes and no bit is set       *)
(* beyond it) and it is epsilon-closed.                                    *)
(***************************************************************************)
C18_FrontierInvariant ==
  \A p \in Pids :
    Installed(p) =>
      LET pp == PolicyOf(p) IN
      /\ pp.fr.num_nodes = pp.num_nodes
      /\ pp.fr.bitmap # NullBitmap
      /\ pp.fr.bitmap \subseteq 0..(pp.num_nodes - 1)
      /\ EpsClosed(pp.edges, pp.fr.bitmap)

(***************************************************************************)
(* epsilon_closure on its own: any edge list with endpoints in range and   *)
(* any frontier, as advance_frontier and the load leave them before the    *)
(* call; the frontiers the function was called on are logged in obs.       *)
(***************************************************************************)
MaxNodes == 3
MaxEdges == 2

\* The epsilon edges over the nodes, and one consuming edge.
ClosureEdges ==
  {Edge(s, d, -1, 1) : s, d \in 0..(MaxNodes - 1)} \cup {Edge(0, 1, 0, 0)}

InitClosure ==
  /\ \E edges \in UNION {[1..n -> ClosureEdges] : n \in 0..MaxEdges},
        F \in SUBSET (0..(MaxNodes - 1)) :
       proc_tbl = [EmptyTbl EXCEPT ![1] =
                     <<[pid |-> 1, num_nodes |-> MaxNodes,
                        num_edges |-> Len(edges), id_mode |-> 0,
                        edges |-> edges,
                        fr |-> [num_nodes |-> MaxNodes, bitmap |-> F]]>>]
  /\ loaded = TRUE
  /\ oops = FALSE
  /\ last = Quiet("init")
  /\ obs = [p \in Pids |-> <<>>]
  /\ prog = NoProg
  /\ pc = Idle

\* epsilon_closure(pp), called at most twice in a row; the passes of the
\* do-while loop are counted in the record of the call.
ApplyClosure ==
  LET pp == PolicyOf(1) IN
  /\ Len(obs[1]) < 2
  /\ proc_tbl' = [proc_tbl EXCEPT ![1][1].fr.bitmap =
                    epsilon_closure(pp.edges, pp.fr.bitmap)]
  /\ obs' = [obs EXCEPT ![1] = Append(@, pp.fr.bitmap)]
  /\ last' = [Quiet("closure") EXCEPT !.pid = 1,
                 !.arg = closure_loop(pp.edges, pp.fr.bitmap, 0).passes]
  /\ UNCHANGED <<loaded, oops, prog, pc>>

NextClosure == ApplyClosure

SpecClosure == InitClosure /\ [][NextClosure]_vars

(***************************************************************************)
(* C19: the epsilon-closure is extensive and idempotent.  For every edge   *)
(* list with in-range endpoints and every frontier F, F is a subset of     *)
(* closure(F) and closure(closure(F)) = closure(F).                        *)
(***************************************************************************)
C19_ClosureIdempotentExtensive ==
  /\ Len(obs[1]) >= 1 => obs[1][1] \subseteq PolicyOf(1).fr.bitmap
  /\ Len(obs[1]) = 1 =>
       epsilon_closure(PolicyOf(1).edges, PolicyOf(1).fr.bitmap)
         = PolicyOf(1).fr.bitmap
  /\ Len(obs[1]) = 2 => PolicyOf(1).fr.bitmap = obs[1][2]

\* Two applications to {0} with the edges 1 -> 2 and 0 -> 1, in the order in
\* which one pass over the array is not enough.
C19_Witness ==
  /\ last.op = "closure"
  /\ PolicyOf(1).edges = <<Edge(1, 2, -1, 1), Edge(0, 1, -1, 1)>>
  /\ obs[1] = <<{0}, {0, 1, 2}>>
  /\ PolicyOf(1).fr.bitmap = {0, 1, 2}

\* The destinations of the consuming edges that leave F on x.
StepTargets(edges, F, x) ==
  {edges[i].dst : i \in {j \in 1..Len(edges) :
      edges[j].is_epsilon = 0 /\ edges[j].src \in F /\ edges[j].match_id = x}}

\* The nodes reachable from S along epsilon edges.
RECURSIVE EpsReach(_, _)
EpsReach(edges, S) ==
  LET T == S \cup {edges[i].dst : i \in {j \in 1..Len(edges) :
                      edges[j].is_epsilon # 0 /\ edges[j].src \in S}}
  IN  IF T = S THEN S ELSE EpsReach(edges, T)

(***************************************************************************)
(* C20: step result.  When the scratch allocation succeeds, an observation *)
(* of x by a process with an installed policy and frontier F replaces the  *)
(* frontier by the epsilon-closure of the destinations of the consuming    *)
(* edges that leave F with match_id = x; no other node stays active.       *)
(***************************************************************************)
C20_StepResult ==
  [][(last'.op = "dummy" /\ last'.found /\ last'.fail = {}) =>
       LET pp == PolicyOf(last'.pid)
           np == proc_tbl'[last'.pid][lookup_ppid(proc_tbl', last'.pid)]
       IN  /\ lookup_ppid(proc_tbl', last'.pid) # 0
           /\ np.fr.bitmap =
                EpsReach(pp.edges,
                         StepTargets(pp.edges, pp.fr.bitmap, last'.arg))]_vars

(***************************************************************************)
(* The first load on its own: every graph of up to MaxNodes nodes and      *)
(* MaxEdges edges with endpoints in range, under every allocation failure. *)
(***************************************************************************)
\* The epsilon and the consuming edges over n nodes.
GraphEdgesOver(n) ==
  {Edge(s, d, -1, 1) : s, d \in 0..(n - 1)}
  \cup {Edge(s, d, 0, 0) : s, d \in 0..(n - 1)}

InstallAny ==
  \E n \in 1..MaxNodes, fail \in FailModes :
    \E edges \in UNION {[1..k -> GraphEdgesOver(n)] : k \in 0..MaxEdges} :
      /\ last.op = "init"
      /\ LoadBlob("load", [pid |-> 1] @@ policy_blob(n, 0, edges), 0, fail,
                  FALSE)
      /\ UNCHANGED <<prog, pc>>

NextInstall == InstallAny

SpecInstall == Init /\ [][NextInstall]_vars

\* The policy found for p after the step.
PolicyAfter(p) == proc_tbl'[p][lookup_ppid(proc_tbl', p)]

\* The nodes of a graph that no consuming edge enters.
NoConsumingInEdge(edges, n) ==
  {k \in 0..(n - 1) :
     ~\E i \in 1..Len(edges) : edges[i].is_epsilon = 0 /\ edges[i].dst = k}

(***************************************************************************)
(* C21: initial frontier.  After a successful load of a graph in which at  *)
(* least one node has no consuming in-edge, the frontier is the epsilon-   *)
(* closure of the set of all such nodes; epsilon in-edges do not count.    *)
(***************************************************************************)
C21_InitialFrontier ==
  [][(last'.op = "load" /\ last'.ret = "0") =>
       LET pp   == PolicyAfter(last'.pid)
           zero == NoConsumingInEdge(pp.edges, pp.num_nodes)
       IN  /\ lookup_ppid(proc_tbl', last'.pid) # 0
           /\ zero # {} => pp.fr.bitmap = EpsReach(pp.edges, zero)]_vars

(***************************************************************************)
(* C22: start-set fallback.  After a successful load of a graph in which   *)
(* every node has a consuming in-edge, the frontier is the epsilon-closure *)
(* of {node 0}, hence not empty.                                           *)
(***************************************************************************)
C22_StartSetFallback ==
  [][(last'.op = "load" /\ last'.ret = "0") =>
       LET pp == PolicyAfter(last'.pid) IN
       /\ lookup_ppid(proc_tbl', last'.pid) # 0
       /\ NoConsumingInEdge(pp.edges, pp.num_nodes) = {} =>
            /\ pp.fr.bitmap = EpsReach(pp.edges, {0})
            /\ pp.fr.bitmap # {}]_vars

\* The frontier of p's policy is allocated and has no bit set.
FrontierEmpty(p) ==
  /\ Installed(p)
  /\ PolicyOf(p).fr.bitmap # NullBitmap
  /\ frontier_empty(PolicyOf(p).fr)

(***************************************************************************)
(* C23: violation is absorbing.  Once the frontier of a pid is empty,      *)
(* every later observation of that pid leaves it empty and sends the       *)
(* lethal signal again, and the policy stays in the table, unchanged,      *)
(* until a load for that pid or the teardown of the engine.                *)
(***************************************************************************)
C23_ViolationAbsorbing ==
  [][\A p \in Pids :
       FrontierEmpty(p) =>
         \/ last'.op = "load" /\ last'.pid = p
         \/ last'.op = "exit"
         \/ /\ lookup_ppid(proc_tbl', p) # 0
            /\ PolicyAfter(p) = PolicyOf(p)
            /\ (last'.op = "dummy" /\ last'.pid = p) => last'.sig]_vars

\* An observation whose scratch allocation failed, on a frontier that was
\* already empty: the frontier is as before and the signal is sent again.
C23_Witness ==
  /\ last.op = "dummy"
  /\ last.pid = 1
  /\ last.fail = {"next"}
  /\ last.sig
  /\ FrontierEmpty(1)

(***************************************************************************)
(* C24: an observation is not skipped by a resource failure.  For a pid    *)
(* with an installed policy and an allocated frontier F, every observation *)
(* of x returns with the frontier equal to the step of F on x, whether the *)
(* scratch allocation of the step succeeds or fails, and the process is    *)
(* killed whenever that step is empty.                                     *)
(***************************************************************************)
C24_ObserveNotSkipped ==
  [][(last'.op = "dummy" /\ last'.found
        /\ PolicyOf(last'.pid).fr.bitmap # NullBitmap) =>
       LET pp   == PolicyOf(last'.pid)
           step == EpsReach(pp.edges,
                            StepTargets(pp.edges, pp.fr.bitmap, last'.arg))
       IN  /\ lookup_ppid(proc_tbl', last'.pid) # 0
           /\ PolicyAfter(last'.pid).fr.bitmap = step
           /\ step = {} => last'.sig]_vars

(***************************************************************************)
(* The graph construction on its own: every function of up to              *)
(* MaxCfgBlocks blocks with at most two successors per block, in every     *)
(* bbMap order; the artifact is written in one step.                       *)
(***************************************************************************)
MaxCfgBlocks == 3

CfgFunctions ==
  UNION {[nb : {n}, calls : [1..n -> 0..MaxSites],
          succ : [1..n -> {S \in SUBSET (1..n) : Cardinality(S) <= 2}],
          addr : Perms(n)] : n \in 1..MaxCfgBlocks}

InitGraph ==
  /\ proc_tbl = EmptyTbl
  /\ loaded = FALSE
  /\ oops = FALSE
  /\ last = Quiet("init")
  /\ obs = [p \in Pids |-> <<>>]
  /\ prog \in {[funcs |-> <<fn>>, M |-> Min(Mods), idMode |-> idMode,
                json |-> <<>>] :
                 fn \in CfgFunctions, idMode \in {"dummy", "unique"}}
  /\ pc = [at |-> "source", f |-> 1, b |-> 0, k |-> 0]

\* The pass runs over the module and writes the artifact.
RunPass ==
  /\ pc.at = "source"
  /\ prog' = Compile(prog.funcs, prog.M, prog.idMode)
  /\ pc' = [pc EXCEPT !.at = "emitted"]
  /\ UNCHANGED <<proc_tbl, loaded, oops, last, obs>>

NextGraph == RunPass

SpecGraph == InitGraph /\ [][NextGraph]_vars

\* The arrays of the artifact's entry for the function.
Emitted(key) == prog.json[strstr(prog.json, 0, key)].val

\* The blocks reached from the blocks of S through blocks without a call.
RECURSIVE ThroughCallFree(_, _)
ThroughCallFree(fn, S) ==
  LET T == S \cup UNION {fn.succ[e] : e \in {x \in S : fn.calls[x] = 0}}
  IN  IF T = S THEN S ELSE ThroughCallFree(fn, T)

\* The edges of the artifact as the engine's edges, matched by dummy id.
EmittedEdges ==
  LET es == Emitted("edges") IN
  [i \in 1..Len(es) |->
     Edge(es[i].src, es[i].dst, es[i].matchDummy,
          IF es[i].label = EpsLabel THEN 1 ELSE 0)]

\* The nodes an epsilon path of at least one edge leads to from node n.
EpsPathFrom(n) ==
  EpsReach(EmittedEdges,
           {EmittedEdges[i].dst : i \in {j \in 1..Len(EmittedEdges) :
               EmittedEdges[j].is_epsilon = 1 /\ EmittedEdges[j].src = n}})

(***************************************************************************)
(* C25: extractor reachability.  If a block B2 with a library-call site is *)
(* reachable in the CFG from a block B1 with a site along a path whose     *)
(* intermediate blocks contain no library call, the graph has an epsilon   *)
(* path from the last site of B1 to the first site of B2.                  *)
(***************************************************************************)
C25_ExtractorReachability ==
  pc.at = "emitted" =>
    LET fn == prog.funcs[1] IN
    \A b1, b2 \in {b \in 1..fn.nb : fn.calls[b] > 0} :
      b2 \in ThroughCallFree(fn, fn.succ[b1]) =>
        callNodeIndex(fn, <<b2, 1>>)
          \in EpsPathFrom(callNodeIndex(fn, <<b1, fn.calls[b1]>>))

\* The consuming edges of the artifact.
Consuming == SelectSeq(Emitted("edges"), LAMBDA e : e.label # EpsLabel)

(***************************************************************************)
(* C26: intra-block edges.  For every block with sites s1..sk, k >= 2, the *)
(* graph has exactly the consuming edges s_i -> s_(i+1) of consecutive     *)
(* sites, and in the artifact matchDummy and matchUnique of such an edge   *)
(* are the dummy id and the unique id of its source node s_i, both         *)
(* non-negative.                                                           *)
(***************************************************************************)
C26_IntraBlockEdges ==
  pc.at = "emitted" =>
    LET fn    == prog.funcs[1]
        pairs == {<<b, i>> \in (1..fn.nb) \X (1..MaxSites) : i < fn.calls[b]}
    IN  /\ Len(Consuming) = Cardinality(pairs)
        /\ \A p \in pairs :
             LET s == callNodeIndex(fn, <<p[1], p[2]>>)
                 t == callNodeIndex(fn, <<p[1], p[2] + 1>>)
                 i == SiteCounter(fn, <<p[1], p[2]>>)
             IN  \E j \in 1..Len(Consuming) :
                   /\ Consuming[j].src = s
                   /\ Consuming[j].dst = t
                   /\ Consuming[j].matchDummy = i % prog.M
                   /\ Consuming[j].matchUnique = i + 1
                   /\ Consuming[j].matchDummy = Emitted("nodeDummyIDs")[s + 1]
                   /\ Consuming[j].matchUnique = Emitted("nodeUniqueIDs")[s + 1]
                   /\ Consuming[j].matchDummy >= 0
                   /\ Consuming[j].matchUnique >= 0

\* A block of two sites that follows a block of one site and is allocated
\* before it: the edge of the block leaves node 0 with the ids of the
\* second site of the function.
C26_Witness ==
  /\ pc.at = "emitted"
  /\ prog.funcs[1].calls = <<1, 2>>
  /\ prog.funcs[1].addr = <<2, 1>>
  /\ prog.funcs[1].succ = <<{2}, {}>>
  /\ Consuming = <<[src |-> 0, dst |-> 1, label |-> "f", matchDummy |-> 1,
                    matchUnique |-> 2]>>

(***************************************************************************)
(* C27: artifact epsilon encoding.  In every artifact an edge has the      *)
(* epsilon label if and only if its matchDummy and matchUnique are both    *)
(* -1, and src and dst of every edge are node indices of the function,     *)
(* less than the length of nodeLabels.                                     *)
(***************************************************************************)
C27_ArtifactEpsilonEncoding ==
  pc.at = "emitted" =>
    \A i \in 1..Len(Emitted("edges")) :
      LET e == Emitted("edges")[i] IN
      /\ e.label = EpsLabel <=> (e.matchDummy = -1 /\ e.matchUnique = -1)
      /\ e.src \in 0..(Len(Emitted("nodeLabels")) - 1)
      /\ e.dst \in 0..(Len(Emitted("nodeLabels")) - 1)

(***************************************************************************)
(* The ioctl and the probe as two threads around tbl_lock                  *)
(***************************************************************************)
\* One thread runs IOCTL_LOAD_POLICY for pid 1 again and again, task 1 calls
\* dummy() meanwhile.  prog holds the mutex owner, the kmalloc'ed objects
\* already freed, the locals of the two threads; pc holds where each is.
MaxInstalls == 2

Threads ==
  [lock |-> "none", freed |-> {}, nalloc |-> 0, hdr |-> Header(1, 1),
   fail |-> {}, pp |-> 0, id |-> 0, cur |-> 0, ncalls |-> 0]

\* What the ioctl thread is called with: the linear graph, the two cycles and
\* the blob the sanity check rejects; the allocations that can fail.
RaceBlobs == {c \in Blobs : Catalogue[c] \in {Linear, Cycle, EpsLoop, ZeroNodes}}
RaceFails == {{}, {"edges"}, {"pp"}, {"bitmap"}}

InitThreads ==
  /\ proc_tbl = EmptyTbl
  /\ loaded = TRUE
  /\ oops = FALSE
  /\ last = Quiet("init")
  /\ obs = [p \in Pids |-> <<>>]
  /\ prog = Threads
  /\ pc = [ioctl |-> "user", probe |-> "user"]

\* mutex_lock(&tbl_lock) returns once nobody owns the mutex.
mutex_lock(lock) == lock = "none"

\* The position in bucket 1 of the object p points to, 0 when it is not linked.
Linked(tbl, p) ==
  LET hits == {i \in 1..Len(tbl[1]) : tbl[1][i].addr = p} IN
  IF hits = {} THEN 0 ELSE Min(hits)

\* copy_from_user of the header, the sanity check, the copy of the edges.
IoctlCopy(c, fail) ==
  /\ loaded /\ ~oops
  /\ pc.ioctl = "user" /\ prog.nalloc < MaxInstalls
  /\ LET hdr == Header(1, c) IN
     IF reaches_lock(hdr, fail)
     THEN /\ pc' = [pc EXCEPT !.ioctl = "lock"]
          /\ prog' = [prog EXCEPT !.hdr = hdr, !.fail = fail]
          /\ last' = [Quiet("copy") EXCEPT !.pid = 1, !.arg = c, !.fail = fail]
     ELSE /\ UNCHANGED <<pc, prog>>
          /\ last' = [Quiet("copy") EXCEPT !.pid = 1, !.arg = c, !.fail = fail,
                         !.ret = load_policy(EmptyTbl, hdr, fail, FALSE).ret]
  /\ UNCHANGED <<proc_tbl, loaded, oops, obs>>

IoctlLock ==
  /\ loaded /\ ~oops
  /\ pc.ioctl = "lock" /\ mutex_lock(prog.lock)
  /\ pc' = [pc EXCEPT !.ioctl = "unlink"]
  /\ prog' = [prog EXCEPT !.lock = "ioctl"]
  /\ last' = [Quiet("ioctl_lock") EXCEPT !.pid = 1]
  /\ UNCHANGED <<proc_tbl, loaded, oops, obs>>

\* lookup_ppid, hash_del and the three kfree of the entry found.
IoctlUnlink ==
  LET old == lookup_ppid(proc_tbl, 1) IN
  /\ loaded /\ ~oops
  /\ pc.ioctl = "unlink"
  /\ pc' = [pc EXCEPT !.ioctl = "alloc"]
  /\ IF old = 0 THEN UNCHANGED <<proc_tbl, prog>>
     ELSE /\ proc_tbl' = hash_del(proc_tbl, 1, old)
          /\ prog' = [prog EXCEPT !.freed = @ \cup {proc_tbl[1][old].addr}]
  /\ last' = [Quiet("unlink") EXCEPT !.pid = 1, !.found = old # 0]
  /\ UNCHANGED <<loaded, oops, obs>>

\* kzalloc of the proc_policy; on failure the ioctl unlocks and returns.
IoctlAlloc ==
  /\ loaded /\ ~oops
  /\ pc.ioctl = "alloc"
  /\ IF "pp" \in prog.fail
     THEN /\ pc' = [pc EXCEPT !.ioctl = "user"]
          /\ prog' = [prog EXCEPT !.lock = "none"]
          /\ last' = [Quiet("alloc") EXCEPT !.pid = 1, !.ret = "-ENOMEM"]
     ELSE /\ pc' = [pc EXCEPT !.ioctl = "fill"]
          /\ prog' = [prog EXCEPT !.nalloc = @ + 1]
          /\ last' = [Quiet("alloc") EXCEPT !.pid = 1]
  /\ UNCHANGED <<proc_tbl, loaded, oops, obs>>

\* The fields, frontier_init, the start set and epsilon_closure, on the
\* object no list holds yet.
IoctlFill(crash) ==
  LET r == load_locked(EmptyTbl, 1, prog.hdr, prog.fail, crash) IN
  /\ loaded /\ ~oops
  /\ pc.ioctl = "fill"
  /\ crash => r.overrun
  /\ oops' = r.oops
  /\ pc' = [pc EXCEPT !.ioctl = "publish"]
  /\ prog' = [prog EXCEPT !.pp = IF r.oops THEN 0
                                 ELSE r.tbl[1][1] @@ [addr |-> prog.nalloc]]
  /\ last' = [Quiet("fill") EXCEPT !.pid = 1, !.fail = prog.fail, !.oor = r.oor,
                                   !.ret = r.ret]
  /\ UNCHANGED <<proc_tbl, loaded, obs>>

\* hash_add and mutex_unlock.
IoctlPublish ==
  /\ loaded /\ ~oops
  /\ pc.ioctl = "publish"
  /\ proc_tbl' = hash_add(proc_tbl, prog.pp)
  /\ pc' = [pc EXCEPT !.ioctl = "user"]
  /\ prog' = [prog EXCEPT !.lock = "none", !.pp = 0]
  /\ last' = [Quiet("publish") EXCEPT !.pid = 1]
  /\ UNCHANGED <<loaded, oops, obs>>

\* Task 1 enters dummy(id): the probe reads id and the pid.
ProbeEnter(id) ==
  /\ loaded /\ ~oops
  /\ pc.probe = "user" /\ prog.ncalls < MaxObs
  /\ pc' = [pc EXCEPT !.probe = "lock"]
  /\ prog' = [prog EXCEPT !.id = id, !.ncalls = @ + 1]
  /\ last' = [Quiet("enter") EXCEPT !.pid = 1, !.arg = id]
  /\ UNCHANGED <<proc_tbl, loaded, oops, obs>>

ProbeLock ==
  /\ loaded /\ ~oops
  /\ pc.probe = "lock" /\ mutex_lock(prog.lock)
  /\ pc' = [pc EXCEPT !.probe = "lookup"]
  /\ prog' = [prog EXCEPT !.lock = "probe"]
  /\ last' = [Quiet("probe_lock") EXCEPT !.pid = 1]
  /\ UNCHANGED <<proc_tbl, loaded, oops, obs>>

ProbeLookup ==
  LET i == lookup_ppid(proc_tbl, 1) IN
  /\ loaded /\ ~oops
  /\ pc.probe = "lookup"
  /\ pc' = [pc EXCEPT !.probe = IF i = 0 THEN "unlock" ELSE "advance"]
  /\ prog' = [prog EXCEPT !.cur = IF i = 0 THEN 0 ELSE proc_tbl[1][i].addr]
  /\ last' = [Quiet("lookup") EXCEPT !.pid = 1, !.found = i # 0]
  /\ UNCHANGED <<proc_tbl, loaded, oops, obs>>

\* advance_frontier(pp, id), frontier_empty and send_sig through the pointer
\* the lookup returned.  bad: what the reads of a freed object come to.
ProbeAdvance(nomem, bad) ==
  LET i  == Linked(proc_tbl, prog.cur)
      pp == proc_tbl[1][i]
      bm == advance_frontier(pp, prog.id, nomem)
  IN
  /\ loaded /\ ~oops
  /\ pc.probe = "advance"
  /\ pc' = [pc EXCEPT !.probe = "unlock"]
  /\ bad => i = 0
  /\ IF i = 0
     THEN /\ oops' = bad
          /\ last' = [Quiet("advance") EXCEPT !.pid = 1, !.arg = prog.id,
                                              !.ret = "freed"]
          /\ UNCHANGED proc_tbl
     ELSE IF pp.fr.bitmap = NullBitmap
     THEN /\ oops' = TRUE
          /\ last' = [Quiet("advance") EXCEPT !.pid = 1, !.arg = prog.id,
                                              !.found = TRUE, !.ret = "oops"]
          /\ UNCHANGED proc_tbl
     ELSE /\ oops' = FALSE
          /\ proc_tbl' = [proc_tbl EXCEPT ![1][i].fr.bitmap = bm]
          /\ last' = [Quiet("advance") EXCEPT !.pid = 1, !.arg = prog.id,
                        !.found = TRUE, !.sig = bm = {},
                        !.fail = IF nomem THEN {"next"} ELSE {}]
  /\ UNCHANGED <<loaded, obs, prog>>

ProbeUnlock ==
  /\ loaded /\ ~oops
  /\ pc.probe = "unlock"
  /\ pc' = [pc EXCEPT !.probe = "user"]
  /\ prog' = [prog EXCEPT !.lock = "none", !.cur = 0]
  /\ last' = [Quiet("probe_unlock") EXCEPT !.pid = 1]
  /\ UNCHANGED <<proc_tbl, loaded, oops, obs>>

NextThreads ==
  \/ \E c \in RaceBlobs, fail \in RaceFails : IoctlCopy(c, fail)
  \/ IoctlLock
  \/ IoctlUnlink
  \/ IoctlAlloc
  \/ \E crash \in BOOLEAN : IoctlFill(crash)
  \/ IoctlPublish
  \/ \E id \in ObsIds : ProbeEnter(id)
  \/ ProbeLock
  \/ ProbeLookup
  \/ \E nomem, bad \in BOOLEAN : ProbeAdvance(nomem, bad)
  \/ ProbeUnlock

SpecThreads == InitThreads /\ [][NextThreads]_vars

\* The entry is whole: its bitmap is allocated and closed under its epsilon
\* edges.
Whole(pp) == pp.fr.bitmap # NullBitmap /\ EpsClosed(pp.edges, pp.fr.bitmap)

\* C28: whatever the interleaving of the ioctl and the probe, the policy the
\* probe has looked up and is about to step or has stepped is linked in the
\* table, not freed, and whole: the previous policy or the new one with its
\* epsilon-closed frontier, never one under construction.
C28_ObserveInstallSerialised ==
  (pc.probe \in {"advance", "unlock"} /\ prog.cur # 0) =>
     /\ prog.cur \notin prog.freed
     /\ prog.pp = 0 \/ prog.pp.addr # prog.cur
     /\ Linked(proc_tbl, prog.cur) # 0
     /\ Whole(proc_tbl[1][Linked(proc_tbl, prog.cur)])

(***************************************************************************)
(* C29: epsilon_closure terminates on every edge list with endpoints below *)
(* num_nodes and from every frontier, epsilon cycles included, after at    *)
(* most num_nodes + 1 passes over the edges: every pass but the last sets  *)
(* at least one bit that was clear.                                        *)
(***************************************************************************)
C29_ClosureTerminates ==
  (last.op = "closure" /\ Len(obs[1]) >= 1) =>
     LET before == obs[1][Len(obs[1])]
         after  == PolicyOf(1).fr.bitmap
     IN  /\ last.arg >= 1
         /\ last.arg <= PolicyOf(1).num_nodes + 1
         /\ Cardinality(after) - Cardinality(before) >= last.arg - 1
         /\ after \subseteq 0..(PolicyOf(1).num_nodes - 1)

\* The epsilon cycle 0 -> 1 -> 0 entered at 0: the first pass sets bit 1, the
\* second changes nothing.
C29_Witness ==
  /\ last.op = "closure" /\ last.arg = 2
  /\ PolicyOf(1).edges = <<Edge(1, 0, -1, 1), Edge(0, 1, -1, 1)>>
  /\ obs[1] = <<{0}>>
  /\ PolicyOf(1).fr.bitmap = {0, 1}

Callers == {1, 2}

CallerBlobs == {c \in Blobs : Catalogue[c] \in {Linear, EpsLoop}}
CallerFails == {{}, {"pp"}}

InitCallers ==
  /\ proc_tbl = EmptyTbl
  /\ loaded = TRUE
  /\ oops = FALSE
  /\ last = Quiet("init")
  /\ obs = [p \in Pids |-> <<>>]
  /\ prog = [lock |-> 0, freed |-> {}, nalloc |-> 0,
             hdr |-> [t \in Callers |-> Header(1, 1)],
             fail |-> [t \in Callers |-> {}],
             pp |-> [t \in Callers |-> 0]]
  /\ pc = [t \in Callers |-> "user"]

\* One statement of sandbox_ioctl in thread t.  bad: what the read of a freed
\* object comes to.
IoctlStep(t, c, fail, bad) ==
  LET old == lookup_ppid(proc_tbl, 1)
      r   == load_locked(EmptyTbl, 1, prog.hdr[t], {}, FALSE)
      rec == [Quiet(pc[t]) EXCEPT !.pid = 1, !.arg = t]
  IN
  /\ loaded /\ ~oops
  /\ bad => pc[t] = "log" /\ prog.pp[t].addr \in prog.freed
  /\ CASE pc[t] = "user" ->
            \* copy_from_user of the header and the edges
            /\ prog.nalloc < MaxInstalls
            /\ pc' = [pc EXCEPT ![t] = "lock"]
            /\ prog' = [prog EXCEPT !.hdr[t] = Header(1, c), !.fail[t] = fail]
            /\ last' = rec
            /\ UNCHANGED <<proc_tbl, oops>>
       [] pc[t] = "lock" ->
            /\ prog.lock = 0
            /\ pc' = [pc EXCEPT ![t] = "unlink"]
            /\ prog' = [prog EXCEPT !.lock = t]
            /\ last' = rec
            /\ UNCHANGED <<proc_tbl, oops>>
       [] pc[t] = "unlink" ->
            \* lookup_ppid, hash_del and the kfree of the entry found
            /\ pc' = [pc EXCEPT ![t] = "alloc"]
            /\ IF old = 0 THEN UNCHANGED <<proc_tbl, prog>>
               ELSE /\ proc_tbl' = hash_del(proc_tbl, 1, old)
                    /\ prog' = [prog EXCEPT
                                  !.freed = @ \cup {proc_tbl[1][old].addr}]
            /\ last' = [rec EXCEPT !.found = old # 0]
            /\ UNCHANGED oops
       [] pc[t] = "alloc" ->
            \* kzalloc; on failure mutex_unlock and return
            /\ IF "pp" \in prog.fail[t]
               THEN /\ pc' = [pc EXCEPT ![t] = "user"]
                    /\ prog' = [prog EXCEPT !.lock = 0]
                    /\ last' = [rec EXCEPT !.ret = "-ENOMEM"]
               ELSE /\ pc' = [pc EXCEPT ![t] = "publish"]
                    /\ prog' = [prog EXCEPT !.nalloc = @ + 1,
                                  !.pp[t] = r.tbl[1][1] @@ [addr |-> prog.nalloc + 1]]
                    /\ last' = rec
            /\ UNCHANGED <<proc_tbl, oops>>
       [] pc[t] = "publish" ->
            \* hash_add and mutex_unlock
            /\ proc_tbl' = hash_add(proc_tbl, prog.pp[t])
            /\ pc' = [pc EXCEPT ![t] = "log"]
            /\ prog' = [prog EXCEPT !.lock = 0]
            /\ last' = rec
            /\ UNCHANGED oops
       [] pc[t] = "log" ->
            \* pr_info reads pp->pid, num_nodes, num_edges, id_mode
            /\ pc' = [pc EXCEPT ![t] = "user"]
            /\ prog' = [prog EXCEPT !.pp[t] = 0]
            /\ last' = [rec EXCEPT !.ret = IF prog.pp[t].addr \in prog.freed
                                           THEN "freed" ELSE "0"]
            /\ oops' = bad
            /\ UNCHANGED proc_tbl
  /\ UNCHANGED <<loaded, obs>>

\* rmmod: the module's use count is held by every open /dev/libcallsandbox
\* (fops.owner), so sandbox_exit runs with no ioctl in flight.
ModuleExit ==
  /\ loaded /\ ~oops
  /\ \A t \in Callers : pc[t] = "user"
  /\ proc_tbl' = EmptyTbl
  /\ prog' = [prog EXCEPT !.freed = @ \cup {proc_tbl[1][i].addr :
                                             i \in 1..Len(proc_tbl[1])}]
  /\ loaded' = FALSE
  /\ last' = Quiet("exit")
  /\ UNCHANGED <<oops, obs, pc>>

NextCallers ==
  \/ \E t \in Callers, c \in CallerBlobs, fail \in CallerFails,
        bad \in BOOLEAN : IoctlStep(t, c, fail, bad)
  \/ ModuleExit

SpecCallers == InitCallers /\ [][NextCallers]_vars

\* C31: in every interleaving of two installs for the same pid, and of an
\* install with rmmod, no proc_policy is read after its kfree; the read of
\* pid, num_nodes, num_edges and id_mode for the success log, after
\* mutex_unlock, is one of these reads.
C31_NoAccessAfterFree == ~(last.op = "log" /\ last.ret = "freed")

====
